---- MODULE Spec2Model ----
(***************************************************************************)
(* Client-group store of ui-cli (src/src/ui_cli/groups.py): the GroupsFile *)
(* document a GroupManager caches, the JSON file behind it, and the        *)
(* manager's operations.                                                   *)
(*                                                                         *)
(* Strings the code inspects character by character (names, slugs, MAC     *)
(* addresses, aliases) are sequences of one-character strings.  Python's   *)
(* None is the empty sequence NONE and a present value x is Some(x).       *)
(* A dict is a sequence of entries in insertion order.                     *)
(***************************************************************************)
EXTENDS Integers, Sequences, FiniteSets, TLC

VARIABLES data, data2, file, now, last, call

vars == <<data, data2, file, now, last, call>>

\* Largest value the clock datetime.now() reads may take.
MaxClock == 1

\* Longest argument of normalize_mac that is enumerated character by
\* character.
MaxMacLen == 3

NONE == <<>>
Some(x) == <<x>>

----------------------------------------------------------------------------
\* Characters and the str methods the code uses.

Uppers == <<"A","B","C","D","E","F","G","H","I","J","K","L","M",
            "N","O","P","Q","R","S","T","U","V","W","X","Y","Z">>
Lowers == <<"a","b","c","d","e","f","g","h","i","j","k","l","m",
            "n","o","p","q","r","s","t","u","v","w","x","y","z">>
Digits == {"0","1","2","3","4","5","6","7","8","9"}
Whitespace == {" "}

Range(s) == {s[i] : i \in DOMAIN s}

\* str.lower() and str.upper() on one character.
LowerOf == [c \in Range(Uppers) |-> Lowers[CHOOSE i \in DOMAIN Uppers : Uppers[i] = c]]
UpperOf == [c \in Range(Lowers) |-> Uppers[CHOOSE i \in DOMAIN Lowers : Lowers[i] = c]]

LowerChar(c) == IF c \in DOMAIN LowerOf THEN LowerOf[c] ELSE c

UpperChar(c) == IF c \in DOMAIN UpperOf THEN UpperOf[c] ELSE c

Lower(s) == [i \in DOMAIN s |-> LowerChar(s[i])]
Upper(s) == [i \in DOMAIN s |-> UpperChar(s[i])]

Replace(s, old, new) == [i \in DOMAIN s |-> IF s[i] = old THEN new ELSE s[i]]

RECURSIVE LStrip(_, _)
LStrip(s, cs) ==
    IF s # <<>> /\ Head(s) \in cs THEN LStrip(Tail(s), cs) ELSE s

RECURSIVE RStrip(_, _)
RStrip(s, cs) ==
    IF s # <<>> /\ s[Len(s)] \in cs
    THEN RStrip(SubSeq(s, 1, Len(s) - 1), cs)
    ELSE s

Strip(s, cs) == RStrip(LStrip(s, cs), cs)

SlugChars == Range(Lowers) \cup Digits

\* re.sub(r"[^a-z0-9]+", "-", s): every maximal run of other characters
\* becomes one hyphen.
RECURSIVE SubNonAlnumRuns(_)
SubNonAlnumRuns(s) ==
    IF s = <<>> THEN <<>>
    ELSE IF Head(s) \in SlugChars
         THEN <<Head(s)>> \o SubNonAlnumRuns(Tail(s))
         ELSE <<"-">> \o SubNonAlnumRuns(LStrip(s, Range(s) \ SlugChars))

\* Mutant: the hyphens are stripped before the substitution, not after.
slugify_strips_first(name) ==
    SubNonAlnumRuns(Strip(Strip(Lower(name), Whitespace), {"-"}))

slugify(name) ==
    Strip(SubNonAlnumRuns(Strip(Lower(name), Whitespace)), {"-"})

\* ":".join(mac[i:i+2] for i in range(0, 12, 2))
JoinPairs(mac) ==
    <<mac[1], mac[2], ":", mac[3], mac[4], ":", mac[5], mac[6], ":",
      mac[7], mac[8], ":", mac[9], mac[10], ":", mac[11], mac[12]>>

\* Mutant: the letters keep their case.
normalize_mac_keeps_case(mac) ==
    LET m == Replace(Replace(mac, "-", ":"), ".", ":")
    IN  IF ":" \notin Range(m) /\ Len(m) = 12 THEN JoinPairs(m) ELSE m

normalize_mac(mac) ==
    LET m == Replace(Replace(Upper(mac), "-", ":"), ".", ":")
    IN  IF ":" \notin Range(m) /\ Len(m) = 12 THEN JoinPairs(m) ELSE m

----------------------------------------------------------------------------
\* The pydantic models and their plain (dict / JSON) form.
\*
\*   GroupMember     [mac, alias]
\*   AutoGroupRules  [vendor, name, hostname, network, ip, mac, conn_type]
\*   Group           [name, description, type, members, rules,
\*                    created_at, updated_at]
\*   GroupsFile      [version, groups], groups a sequence of [slug, group]
\*
\* In the plain form a key may be missing (NONE), "type" is any string and a
\* timestamp is either a datetime object or its text.

GroupsFile0 == [version |-> 1, groups |-> <<>>]

GroupMember(mac, alias) == [mac |-> mac, alias |-> alias]

DumpTime(t) == [form |-> "datetime", t |-> t]

\* Mutant: the dump leaves the alias out.
DumpMemberNoAlias(m) == [mac |-> Some(m.mac), alias |-> NONE]

DumpMember(m) == [mac |-> Some(m.mac), alias |-> m.alias]

\* Mutant: the dump leaves the description out.
DumpGroupNoDescription(g) ==
    [name        |-> Some(g.name),
     description |-> NONE,
     type        |-> Some(g.type),
     members     |-> IF g.members = NONE THEN NONE
                     ELSE Some([i \in DOMAIN g.members[1] |->
                                   [mac   |-> Some(g.members[1][i].mac),
                                    alias |-> g.members[1][i].alias]]),
     rules       |-> g.rules,
     created_at  |-> Some(DumpTime(g.created_at)),
     updated_at  |-> Some(DumpTime(g.updated_at))]

DumpGroup(g) ==
    [name        |-> Some(g.name),
     description |-> g.description,
     type        |-> Some(g.type),
     members     |-> IF g.members = NONE THEN NONE
                     ELSE Some([i \in DOMAIN g.members[1] |->
                                   DumpMember(g.members[1][i])]),
     rules       |-> g.rules,
     created_at  |-> Some(DumpTime(g.created_at)),
     updated_at  |-> Some(DumpTime(g.updated_at))]

\* GroupsFile.model_dump(): nested models become dicts, datetimes stay
\* datetime objects.
model_dump(d) ==
    [version |-> Some(d.version),
     groups  |-> Some([i \in DOMAIN d.groups |->
                         [slug  |-> d.groups[i].slug,
                          group |-> DumpGroup(d.groups[i].group)]])]

\* json.dumps(..., default=str): a datetime is written as str(datetime).
JsonTime(ot) == IF ot = NONE THEN NONE ELSE Some([form |-> "str", t |-> ot[1].t])

JsonGroup(rg) ==
    [rg EXCEPT !.created_at = JsonTime(rg.created_at),
               !.updated_at = JsonTime(rg.updated_at)]

json_dumps(raw) ==
    [raw EXCEPT !.groups =
        IF raw.groups = NONE THEN NONE
        ELSE Some([i \in DOMAIN raw.groups[1] |->
                     [slug  |-> raw.groups[1][i].slug,
                      group |-> JsonGroup(raw.groups[1][i].group)]])]

GroupTypes == {"static", "auto"}

ValidMember(rm) == rm.mac # NONE

ValidGroup(rg) ==
    /\ rg.name # NONE
    /\ rg.type = NONE \/ rg.type[1] \in GroupTypes
    /\ rg.members = NONE \/ \A i \in DOMAIN rg.members[1] : ValidMember(rg.members[1][i])
    /\ rg.created_at # NONE
    /\ rg.updated_at # NONE

\* Whether GroupsFile(**raw) validates.
ValidGroupsFile(raw) ==
    raw.groups = NONE \/ \A i \in DOMAIN raw.groups[1] : ValidGroup(raw.groups[1][i].group)

ParseMember(rm) == GroupMember(rm.mac[1], rm.alias)

ParseGroup(rg) ==
    [name        |-> rg.name[1],
     description |-> rg.description,
     type        |-> IF rg.type = NONE THEN "static" ELSE rg.type[1],
     members     |-> IF rg.members = NONE THEN NONE
                     ELSE Some([i \in DOMAIN rg.members[1] |->
                                   ParseMember(rg.members[1][i])]),
     rules       |-> rg.rules,
     created_at  |-> rg.created_at[1].t,
     updated_at  |-> rg.updated_at[1].t]

\* The model GroupsFile(**raw) builds from a valid plain document; a
\* missing key takes the field's default.
ParseGroupsFile(raw) ==
    [version |-> IF raw.version = NONE THEN 1 ELSE raw.version[1],
     groups  |-> IF raw.groups = NONE THEN <<>>
                 ELSE [i \in DOMAIN raw.groups[1] |->
                         [slug  |-> raw.groups[1][i].slug,
                          group |-> ParseGroup(raw.groups[1][i].group)]]]

----------------------------------------------------------------------------
\* The backing file: absent, text that is not JSON, JSON that is not an
\* object, or a JSON object.

RawDoc0 == [version |-> NONE, groups |-> NONE]

FileMissing == [kind |-> "missing", doc |-> RawDoc0]
FileNotJson == [kind |-> "invalid_json", doc |-> RawDoc0]
FileNotObject == [kind |-> "non_object", doc |-> RawDoc0]
FileObject(raw) == [kind |-> "object", doc |-> raw]

\* GroupManager._load: the exception it lets escape ("none" when it
\* returns) and the document it leaves in _data.
_load(f) ==
    IF f.kind = "missing" THEN [exc |-> "none", data |-> Some(GroupsFile0)]
    ELSE IF f.kind = "invalid_json"
         THEN [exc |-> "none", data |-> Some(GroupsFile0)]
    ELSE IF f.kind = "non_object"
         THEN [exc |-> "TypeError", data |-> NONE]
    ELSE IF ~ValidGroupsFile(f.doc)
         THEN [exc |-> "none", data |-> Some(GroupsFile0)]
    ELSE [exc |-> "none", data |-> Some(ParseGroupsFile(f.doc))]

\* Mutant: the document is read from the file on every access.
DataReloads(d, f) == _load(f)

\* The data property: _data, loaded on first access.
Data(d, f) == IF d = NONE THEN _load(f) ELSE [exc |-> "none", data |-> d]

\* GroupManager._save: the file it writes for document d.
_save(d) == FileObject(json_dumps(model_dump(d)))

----------------------------------------------------------------------------
\* dict operations on the ordered groups mapping.

Keys(gs) == {gs[i].slug : i \in DOMAIN gs}

IndexOf(gs, slug) == CHOOSE i \in DOMAIN gs : gs[i].slug = slug

Get(gs, slug) == gs[IndexOf(gs, slug)].group

\* gs[slug] = g: an existing key keeps its position, a new key goes last.
Put(gs, slug, g) ==
    IF slug \in Keys(gs)
    THEN [gs EXCEPT ![IndexOf(gs, slug)].group = g]
    ELSE Append(gs, [slug |-> slug, group |-> g])

\* del gs[slug]
Del(gs, slug) ==
    LET k == IndexOf(gs, slug)
    IN  SubSeq(gs, 1, k - 1) \o SubSeq(gs, k + 1, Len(gs))

\* Index of the first element of sequence s that satisfies Test, 0 if none.
First(s, Test(_)) ==
    IF \E i \in DOMAIN s : Test(s[i])
    THEN CHOOSE i \in DOMAIN s : Test(s[i]) /\ \A j \in 1..(i - 1) : ~Test(s[j])
    ELSE 0

\* Python truthiness of an optional string: None and "" are false.
Truthy(os) == os # NONE /\ os[1] # <<>>

\* Mutant: the identifier is looked up as it is, not its slug.
_resolve_group_unslugged(gs, name_or_slug) ==
    LET SameName(e) == Lower(e.group.name) = Lower(name_or_slug)
        k == First(gs, SameName)
    IN  IF name_or_slug \in Keys(gs) THEN Some(name_or_slug)
        ELSE IF k # 0 THEN Some(gs[k].slug)
        ELSE NONE

\* GroupManager._resolve_group: Some(slug), or NONE for None.
_resolve_group(gs, name_or_slug) ==
    LET slug == slugify(name_or_slug)
        SameName(e) == Lower(e.group.name) = Lower(name_or_slug)
        k == First(gs, SameName)
    IN  IF slug \in Keys(gs) THEN Some(slug)
        ELSE IF k # 0 THEN Some(gs[k].slug)
        ELSE NONE

----------------------------------------------------------------------------
\* The manager's methods.  Each takes the cached document d (NONE before
\* the first load), the file f and the clock reading t, and gives the
\* document and file it leaves, the failure it raises ("none" when it
\* returns) and what it returns.

Ret0 == [slug |-> NONE, ok |-> FALSE, count |-> 0, list |-> <<>>]
RetSlug(slug) == [Ret0 EXCEPT !.slug = Some(slug)]
RetBool(b) == [Ret0 EXCEPT !.ok = b]
RetCount(n) == [Ret0 EXCEPT !.count = n]
RetList(xs) == [Ret0 EXCEPT !.list = xs]

Outcome(d, f, exc, ret) == [data |-> d, file |-> f, exc |-> exc, ret |-> ret]

Raise(d, f, exc) == Outcome(d, f, exc, Ret0)

\* A method body that ends in self._save() after leaving document doc.
Saved(doc, ret) == Outcome(Some(doc), _save(doc), "none", ret)

WithGroup(doc, slug, g) == [doc EXCEPT !.groups = Put(doc.groups, slug, g)]

list_groups(d, f) ==
    LET ld == Data(d, f)
    IN  IF ld.exc # "none" THEN Raise(d, f, ld.exc)
        ELSE Outcome(ld.data, f, "none", RetCount(Len(ld.data[1].groups)))

get_group(d, f, name_or_slug) ==
    LET ld == Data(d, f)
    IN  IF ld.exc # "none" THEN Raise(d, f, ld.exc)
        ELSE LET r == _resolve_group(ld.data[1].groups, name_or_slug)
             IN  IF Truthy(r) THEN Outcome(ld.data, f, "none", RetSlug(r[1]))
                 ELSE Outcome(ld.data, f, "none", Ret0)

\* Mutant: no check that the slug is free.
create_group_unchecked(d, f, t, name, description, group_type, rules) ==
    LET ld == Data(d, f)
    IN  IF ld.exc # "none" THEN Raise(d, f, ld.exc)
        ELSE
        LET group == [name        |-> name,
                      description |-> description,
                      type        |-> group_type,
                      members     |-> IF group_type = "static" THEN Some(<<>>) ELSE NONE,
                      rules       |-> IF group_type = "auto" THEN rules ELSE NONE,
                      created_at  |-> t,
                      updated_at  |-> t]
        IN  Saved(WithGroup(ld.data[1], slugify(name), group), RetSlug(slugify(name)))

create_group(d, f, t, name, description, group_type, rules) ==
    LET ld == Data(d, f)
    IN  IF ld.exc # "none" THEN Raise(d, f, ld.exc)
        ELSE
        LET doc == ld.data[1]
            slug == slugify(name)
            group == [name        |-> name,
                      description |-> description,
                      type        |-> group_type,
                      members     |-> IF group_type = "static" THEN Some(<<>>) ELSE NONE,
                      rules       |-> IF group_type = "auto" THEN rules ELSE NONE,
                      created_at  |-> t,
                      updated_at  |-> t]
        IN  IF slug \in Keys(doc.groups) THEN Raise(ld.data, f, "AlreadyExists")
            ELSE Saved(WithGroup(doc, slug, group), RetSlug(slug))

\* Mutant: the entry is removed from the document but the file is not
\* written.
delete_group_unsaved(d, f, name_or_slug) ==
    LET ld == Data(d, f)
    IN  IF ld.exc # "none" THEN Raise(d, f, ld.exc)
        ELSE
        LET doc == ld.data[1]
            r == _resolve_group(doc.groups, name_or_slug)
        IN  IF ~Truthy(r) THEN Outcome(ld.data, f, "none", RetBool(FALSE))
            ELSE Outcome(Some([doc EXCEPT !.groups = Del(doc.groups, r[1])]), f,
                         "none", RetBool(TRUE))

delete_group(d, f, name_or_slug) ==
    LET ld == Data(d, f)
    IN  IF ld.exc # "none" THEN Raise(d, f, ld.exc)
        ELSE
        LET doc == ld.data[1]
            r == _resolve_group(doc.groups, name_or_slug)
        IN  IF ~Truthy(r) THEN Outcome(ld.data, f, "none", RetBool(FALSE))
            ELSE Saved([doc EXCEPT !.groups = Del(doc.groups, r[1])], RetBool(TRUE))

\* Mutant: a rename stores the group under the new key and keeps the old.
update_group_copies(d, f, t, name_or_slug, new_name, description) ==
    LET ld == Data(d, f)
    IN  IF ld.exc # "none" THEN Raise(d, f, ld.exc)
        ELSE
        LET doc == ld.data[1]
            r == _resolve_group(doc.groups, name_or_slug)
        IN  IF ~Truthy(r) THEN Raise(ld.data, f, "NotFound")
            ELSE
            LET group == Get(doc.groups, r[1])
                new_slug == IF Truthy(new_name) THEN slugify(new_name[1]) ELSE r[1]
                g1 == [group EXCEPT
                         !.name = IF Truthy(new_name) THEN new_name[1] ELSE @,
                         !.description = IF description.given THEN description.value ELSE @,
                         !.updated_at = t]
            IN  Saved([doc EXCEPT !.groups = Put(doc.groups, new_slug, g1)],
                      RetSlug(new_slug))

\* Mutant: a rename that moves the group stores it as a new group, with
\* created_at set anew.
update_group_recreates(d, f, t, name_or_slug, new_name, description) ==
    LET ld == Data(d, f)
    IN  IF ld.exc # "none" THEN Raise(d, f, ld.exc)
        ELSE
        LET doc == ld.data[1]
            r == _resolve_group(doc.groups, name_or_slug)
        IN  IF ~Truthy(r) THEN Raise(ld.data, f, "NotFound")
            ELSE
            LET slug == r[1]
                new_slug == IF Truthy(new_name) THEN slugify(new_name[1]) ELSE slug
                g1 == [Get(doc.groups, slug) EXCEPT
                         !.name = IF Truthy(new_name) THEN new_name[1] ELSE @,
                         !.description = IF description.given THEN description.value ELSE @,
                         !.created_at = IF new_slug # slug THEN t ELSE @,
                         !.updated_at = t]
                gs1 == IF new_slug # slug
                       THEN Del(Put(doc.groups, new_slug, g1), slug)
                       ELSE Put(doc.groups, slug, g1)
            IN  Saved([doc EXCEPT !.groups = gs1], RetSlug(new_slug))

\* Mutant: a rename changes the name and leaves the group under its key.
update_group_keeps_key(d, f, t, name_or_slug, new_name, description) ==
    LET ld == Data(d, f)
    IN  IF ld.exc # "none" THEN Raise(d, f, ld.exc)
        ELSE
        LET doc == ld.data[1]
            r == _resolve_group(doc.groups, name_or_slug)
        IN  IF ~Truthy(r) THEN Raise(ld.data, f, "NotFound")
            ELSE
            LET g1 == [Get(doc.groups, r[1]) EXCEPT
                         !.name = IF Truthy(new_name) THEN new_name[1] ELSE @,
                         !.description = IF description.given THEN description.value ELSE @,
                         !.updated_at = t]
            IN  Saved(WithGroup(doc, r[1], g1), RetSlug(r[1]))

\* Mutant: a description of None counts as not provided.
update_group_none_is_omitted(d, f, t, name_or_slug, new_name, description) ==
    LET ld == Data(d, f)
    IN  IF ld.exc # "none" THEN Raise(d, f, ld.exc)
        ELSE
        LET doc == ld.data[1]
            r == _resolve_group(doc.groups, name_or_slug)
        IN  IF ~Truthy(r) THEN Raise(ld.data, f, "NotFound")
            ELSE
            LET slug == r[1]
                group == Get(doc.groups, slug)
                new_slug == IF Truthy(new_name) THEN slugify(new_name[1]) ELSE slug
                g1 == [group EXCEPT
                         !.name = IF Truthy(new_name) THEN new_name[1] ELSE @,
                         !.description = IF description.value # NONE
                                         THEN description.value ELSE @,
                         !.updated_at = t]
                gs1 == IF new_slug # slug
                       THEN Del(Put(doc.groups, new_slug, g1), slug)
                       ELSE Put(doc.groups, slug, g1)
            IN  Saved([doc EXCEPT !.groups = gs1], RetSlug(new_slug))

\* new_name is an optional string; description is [given, value], given
\* FALSE standing for the default "...".
update_group(d, f, t, name_or_slug, new_name, description) ==
    LET ld == Data(d, f)
    IN  IF ld.exc # "none" THEN Raise(d, f, ld.exc)
        ELSE
        LET doc == ld.data[1]
            r == _resolve_group(doc.groups, name_or_slug)
        IN  IF ~Truthy(r) THEN Raise(ld.data, f, "NotFound")
            ELSE
            LET slug == r[1]
                group == Get(doc.groups, slug)
                new_slug == IF Truthy(new_name) THEN slugify(new_name[1]) ELSE slug
                g1 == [group EXCEPT
                         !.name = IF Truthy(new_name) THEN new_name[1] ELSE @,
                         !.description = IF description.given THEN description.value ELSE @,
                         !.updated_at = t]
                gs1 == IF new_slug # slug
                       THEN Del(Put(doc.groups, new_slug, g1), slug)
                       ELSE Put(doc.groups, slug, g1)
            IN  Saved([doc EXCEPT !.groups = gs1], RetSlug(new_slug))

\* The member list of a group, [] when it is None.
MembersOf(group) == IF group.members = NONE THEN <<>> ELSE group.members[1]

RemoveAt(s, k) == SubSeq(s, 1, k - 1) \o SubSeq(s, k + 1, Len(s))

\* Index of the first member with this normalized address, 0 if none.
FindMac(ms, mac) ==
    LET HasMac(m) == m.mac = mac
    IN  First(ms, HasMac)

\* Index of the first member whose address is the normalized identifier
\* or whose alias is the identifier itself, 0 if none.
FindMember(ms, identifier) ==
    LET Hit(m) == m.mac = normalize_mac(identifier) \/ m.alias = Some(identifier)
    IN  First(ms, Hit)

\* Mutant: the address is compared and stored as given.
add_member_unnormalized(d, f, t, name_or_slug, mac, alias) ==
    LET ld == Data(d, f)
    IN  IF ld.exc # "none" THEN Raise(d, f, ld.exc)
        ELSE
        LET doc == ld.data[1]
            r == _resolve_group(doc.groups, name_or_slug)
        IN  IF ~Truthy(r) THEN Raise(ld.data, f, "NotFound")
            ELSE
            LET slug == r[1]
                group == Get(doc.groups, slug)
                ms == MembersOf(group)
                k == FindMac(ms, mac)
                updated == IF Truthy(alias)
                           THEN [group EXCEPT
                                   !.members = Some([ms EXCEPT ![k].alias = alias]),
                                   !.updated_at = t]
                           ELSE group
                added == [group EXCEPT
                            !.members = Some(Append(ms, GroupMember(mac, alias))),
                            !.updated_at = t]
            IN  IF group.type # "static" THEN Raise(ld.data, f, "WrongKind")
                ELSE IF k # 0 THEN Saved(WithGroup(doc, slug, updated), RetSlug(slug))
                ELSE Saved(WithGroup(doc, slug, added), RetSlug(slug))

\* Mutant: updated_at is set on every successful call.
add_member_always_stamps(d, f, t, name_or_slug, mac, alias) ==
    LET ld == Data(d, f)
    IN  IF ld.exc # "none" THEN Raise(d, f, ld.exc)
        ELSE
        LET doc == ld.data[1]
            r == _resolve_group(doc.groups, name_or_slug)
        IN  IF ~Truthy(r) THEN Raise(ld.data, f, "NotFound")
            ELSE
            LET slug == r[1]
                group == Get(doc.groups, slug)
                nmac == normalize_mac(mac)
                ms == MembersOf(group)
                k == FindMac(ms, nmac)
                updated == [group EXCEPT
                              !.members = IF Truthy(alias)
                                          THEN Some([ms EXCEPT ![k].alias = alias])
                                          ELSE @,
                              !.updated_at = t]
                added == [group EXCEPT
                            !.members = Some(Append(ms, GroupMember(nmac, alias))),
                            !.updated_at = t]
            IN  IF group.type # "static" THEN Raise(ld.data, f, "WrongKind")
                ELSE IF k # 0 THEN Saved(WithGroup(doc, slug, updated), RetSlug(slug))
                ELSE Saved(WithGroup(doc, slug, added), RetSlug(slug))

add_member(d, f, t, name_or_slug, mac, alias) ==
    LET ld == Data(d, f)
    IN  IF ld.exc # "none" THEN Raise(d, f, ld.exc)
        ELSE
        LET doc == ld.data[1]
            r == _resolve_group(doc.groups, name_or_slug)
        IN  IF ~Truthy(r) THEN Raise(ld.data, f, "NotFound")
            ELSE
            LET slug == r[1]
                group == Get(doc.groups, slug)
                nmac == normalize_mac(mac)
                ms == MembersOf(group)
                k == FindMac(ms, nmac)
                updated == IF Truthy(alias)
                           THEN [group EXCEPT
                                   !.members = Some([ms EXCEPT ![k].alias = alias]),
                                   !.updated_at = t]
                           ELSE group
                added == [group EXCEPT
                            !.members = Some(Append(ms, GroupMember(nmac, alias))),
                            !.updated_at = t]
            IN  IF group.type # "static" THEN Raise(ld.data, f, "WrongKind")
                ELSE IF k # 0 THEN Saved(WithGroup(doc, slug, updated), RetSlug(slug))
                ELSE Saved(WithGroup(doc, slug, added), RetSlug(slug))

\* alias is [given, value], given FALSE standing for the default "...".
update_member(d, f, t, name_or_slug, identifier, alias) ==
    LET ld == Data(d, f)
    IN  IF ld.exc # "none" THEN Raise(d, f, ld.exc)
        ELSE
        LET doc == ld.data[1]
            r == _resolve_group(doc.groups, name_or_slug)
        IN  IF ~Truthy(r) THEN Raise(ld.data, f, "NotFound")
            ELSE
            LET slug == r[1]
                group == Get(doc.groups, slug)
                ms == MembersOf(group)
                k == FindMember(ms, identifier)
                g1 == [group EXCEPT
                         !.members = Some([ms EXCEPT ![k].alias =
                                             IF alias.given THEN alias.value ELSE @]),
                         !.updated_at = t]
            IN  IF group.type # "static" \/ ms = <<>> \/ k = 0
                THEN Outcome(ld.data, f, "none", RetBool(FALSE))
                ELSE Saved(WithGroup(doc, slug, g1), RetBool(TRUE))

\* Mutant: a member with the address is looked for first, and only then
\* one with the alias.
remove_member_address_first(d, f, t, name_or_slug, identifier) ==
    LET ld == Data(d, f)
    IN  IF ld.exc # "none" THEN Raise(d, f, ld.exc)
        ELSE
        LET doc == ld.data[1]
            r == _resolve_group(doc.groups, name_or_slug)
        IN  IF ~Truthy(r) THEN Raise(ld.data, f, "NotFound")
            ELSE
            LET slug == r[1]
                group == Get(doc.groups, slug)
                ms == MembersOf(group)
                HasAlias(m) == m.alias = Some(identifier)
                byMac == FindMac(ms, normalize_mac(identifier))
                k == IF byMac # 0 THEN byMac ELSE First(ms, HasAlias)
                g1 == [group EXCEPT !.members = Some(RemoveAt(ms, k)),
                                    !.updated_at = t]
            IN  IF group.type # "static" \/ ms = <<>> \/ k = 0
                THEN Outcome(ld.data, f, "none", RetBool(FALSE))
                ELSE Saved(WithGroup(doc, slug, g1), RetBool(TRUE))

remove_member(d, f, t, name_or_slug, identifier) ==
    LET ld == Data(d, f)
    IN  IF ld.exc # "none" THEN Raise(d, f, ld.exc)
        ELSE
        LET doc == ld.data[1]
            r == _resolve_group(doc.groups, name_or_slug)
        IN  IF ~Truthy(r) THEN Raise(ld.data, f, "NotFound")
            ELSE
            LET slug == r[1]
                group == Get(doc.groups, slug)
                ms == MembersOf(group)
                k == FindMember(ms, identifier)
                g1 == [group EXCEPT !.members = Some(RemoveAt(ms, k)),
                                    !.updated_at = t]
            IN  IF group.type # "static" \/ ms = <<>> \/ k = 0
                THEN Outcome(ld.data, f, "none", RetBool(FALSE))
                ELSE Saved(WithGroup(doc, slug, g1), RetBool(TRUE))

\* Mutant: the members are cleared whatever the group's type.
clear_members_any_type(d, f, t, name_or_slug) ==
    LET ld == Data(d, f)
    IN  IF ld.exc # "none" THEN Raise(d, f, ld.exc)
        ELSE
        LET doc == ld.data[1]
            r == _resolve_group(doc.groups, name_or_slug)
        IN  IF ~Truthy(r) THEN Raise(ld.data, f, "NotFound")
            ELSE Saved(WithGroup(doc, r[1],
                                 [Get(doc.groups, r[1]) EXCEPT
                                     !.members = Some(<<>>), !.updated_at = t]),
                       RetBool(TRUE))

\* Mutant: the list is emptied but updated_at is not set.
clear_members_keeps_stamp(d, f, t, name_or_slug) ==
    LET ld == Data(d, f)
    IN  IF ld.exc # "none" THEN Raise(d, f, ld.exc)
        ELSE
        LET doc == ld.data[1]
            r == _resolve_group(doc.groups, name_or_slug)
        IN  IF ~Truthy(r) THEN Raise(ld.data, f, "NotFound")
            ELSE
            LET slug == r[1]
                group == Get(doc.groups, slug)
                g1 == [group EXCEPT !.members = Some(<<>>)]
            IN  IF group.type # "static" THEN Raise(ld.data, f, "WrongKind")
                ELSE Saved(WithGroup(doc, slug, g1), RetBool(TRUE))

clear_members(d, f, t, name_or_slug) ==
    LET ld == Data(d, f)
    IN  IF ld.exc # "none" THEN Raise(d, f, ld.exc)
        ELSE
        LET doc == ld.data[1]
            r == _resolve_group(doc.groups, name_or_slug)
        IN  IF ~Truthy(r) THEN Raise(ld.data, f, "NotFound")
            ELSE
            LET slug == r[1]
                group == Get(doc.groups, slug)
                g1 == [group EXCEPT !.members = Some(<<>>), !.updated_at = t]
            IN  IF group.type # "static" THEN Raise(ld.data, f, "WrongKind")
                ELSE Saved(WithGroup(doc, slug, g1), RetBool(TRUE))

set_rules(d, f, t, name_or_slug, rules) ==
    LET ld == Data(d, f)
    IN  IF ld.exc # "none" THEN Raise(d, f, ld.exc)
        ELSE
        LET doc == ld.data[1]
            r == _resolve_group(doc.groups, name_or_slug)
        IN  IF ~Truthy(r) THEN Raise(ld.data, f, "NotFound")
            ELSE
            LET slug == r[1]
                group == Get(doc.groups, slug)
                g1 == [group EXCEPT !.rules = Some(rules), !.updated_at = t]
            IN  IF group.type # "auto" THEN Raise(ld.data, f, "WrongKind")
                ELSE Saved(WithGroup(doc, slug, g1), RetSlug(slug))

\* export_groups: the plain document handed to the caller.
export_groups(doc) == model_dump(doc)

\* Mutant: on a key collision the existing group stays.
RECURSIVE MergeKeepsExisting(_, _)
MergeKeepsExisting(gs, imported) ==
    IF imported = <<>> THEN gs
    ELSE MergeKeepsExisting(
            IF Head(imported).slug \in Keys(gs) THEN gs
            ELSE Put(gs, Head(imported).slug, Head(imported).group),
            Tail(imported))

\* Upsert every entry of imported, in its order, into gs.
RECURSIVE Merge(_, _)
Merge(gs, imported) ==
    IF imported = <<>> THEN gs
    ELSE Merge(Put(gs, Head(imported).slug, Head(imported).group), Tail(imported))

\* The entries before the first one that does not validate.
RECURSIVE ValidPrefix(_)
ValidPrefix(entries) ==
    IF entries = <<>> \/ ~ValidGroup(Head(entries).group) THEN <<>>
    ELSE <<Head(entries)>> \o ValidPrefix(Tail(entries))

\* Mutant: groups are validated one by one while they are merged, so the
\* groups before a bad one are already in the document when it fails.
import_groups_piecemeal(d, f, raw, replace) ==
    LET entries == IF raw.groups = NONE THEN <<>> ELSE raw.groups[1]
        good == [i \in DOMAIN ValidPrefix(entries) |->
                    [slug |-> entries[i].slug, group |-> ParseGroup(entries[i].group)]]
        ld == Data(d, f)
    IN  IF ld.exc # "none" THEN Raise(d, f, ld.exc)
        ELSE
        LET doc == [ld.data[1] EXCEPT
                      !.groups = IF replace THEN good ELSE Merge(@, good)]
        IN  IF ~ValidGroupsFile(raw) THEN Raise(Some(doc), f, "InvalidFormat")
            ELSE Saved(doc, RetCount(Len(good)))

import_groups(d, f, raw, replace) ==
    IF ~ValidGroupsFile(raw) THEN Raise(d, f, "InvalidFormat")
    ELSE
    LET imported == ParseGroupsFile(raw)
        ld == Data(d, f)
    IN  IF replace THEN Saved(imported, RetCount(Len(imported.groups)))
        ELSE IF ld.exc # "none" THEN Raise(d, f, ld.exc)
        ELSE Saved([ld.data[1] EXCEPT !.groups = Merge(@, imported.groups)],
                   RetCount(Len(imported.groups)))

----------------------------------------------------------------------------
\* Pattern and address matching (pattern_matches, ip_matches).  A matcher
\* gives the failure it raises ("none" when it returns) and its answer.

Answer(b) == [exc |-> "none", ok |-> b]
Fails(exc) == [exc |-> exc, ok |-> FALSE]

StartsWith(s, prefix) ==
    Len(prefix) <= Len(s) /\ SubSeq(s, 1, Len(prefix)) = prefix

\* str.split(sep) for a one-character separator.
RECURSIVE Split(_, _)
Split(s, sep) ==
    IF sep \notin Range(s) THEN <<s>>
    ELSE LET k == CHOOSE i \in DOMAIN s : s[i] = sep /\ \A j \in 1..(i - 1) : s[j] # sep
         IN  <<SubSeq(s, 1, k - 1)>> \o Split(SubSeq(s, k + 1, Len(s)), sep)

\* str.rsplit(sep, 1) for a one-character separator.
RSplit1(s, sep) ==
    IF sep \notin Range(s) THEN <<s>>
    ELSE LET k == CHOOSE i \in DOMAIN s : s[i] = sep /\ \A j \in (i + 1)..Len(s) : s[j] # sep
         IN  <<SubSeq(s, 1, k - 1), SubSeq(s, k + 1, Len(s))>>

\* fnmatch.fnmatch(name, pat) for patterns of literals, '*' and '?' (no
\* '[' classes): '*' is any run of characters, '?' any one character, and
\* the whole name has to match.
RECURSIVE fnmatch(_, _)
fnmatch(name, pat) ==
    IF pat = <<>> THEN name = <<>>
    ELSE IF Head(pat) = "*"
         THEN fnmatch(name, Tail(pat)) \/ (name # <<>> /\ fnmatch(Tail(name), pat))
    ELSE IF name = <<>> THEN FALSE
    ELSE (Head(pat) = "?" \/ Head(pat) = Head(name)) /\ fnmatch(Tail(name), Tail(pat))

\* The regular expressions of the model: an optional leading '^', then
\* literal characters and '.', then an optional trailing '$'.  Compiling
\* fails with re.error on an unclosed '(' or '[' and on a leading repeat
\* character, and with OverflowError on a repeat count {n} of more than
\* ten digits (n is then above sre's MAXREPEAT, 4294967295).
ReOverflow(p) ==
    \E i \in DOMAIN p, j \in DOMAIN p :
        /\ i < j
        /\ p[i] = "{"
        /\ p[j] = "}"
        /\ j - i - 1 > 10
        /\ \A k \in (i + 1)..(j - 1) : p[k] \in Digits

ReError(p) ==
    \/ "(" \in Range(p) /\ ")" \notin Range(p)
    \/ "[" \in Range(p) /\ "]" \notin Range(p)
    \/ p # <<>> /\ Head(p) \in {"*", "+", "?"}

ReAnchoredStart(p) == p # <<>> /\ Head(p) = "^"
ReAnchoredEnd(p) == p # <<>> /\ p[Len(p)] = "$"

ReAtoms(p) ==
    SubSeq(p, IF ReAnchoredStart(p) THEN 2 ELSE 1,
              IF ReAnchoredEnd(p) THEN Len(p) - 1 ELSE Len(p))

\* The atoms match value from position i on, ignoring case.
ReMatchAt(atoms, value, i) ==
    /\ i + Len(atoms) - 1 <= Len(value)
    /\ \A k \in DOMAIN atoms :
          atoms[k] = "." \/ LowerChar(atoms[k]) = LowerChar(value[i + k - 1])

\* bool(re.search(p, value, re.IGNORECASE))
re_search(p, value) ==
    IF ReOverflow(p) THEN Fails("OverflowError")
    ELSE IF ReError(p) THEN Fails("re.error")
    ELSE Answer(\E i \in 1..(Len(value) + 1) :
                   /\ ReAnchoredStart(p) => i = 1
                   /\ ReAnchoredEnd(p) => i + Len(ReAtoms(p)) - 1 = Len(value)
                   /\ ReMatchAt(ReAtoms(p), value, i))

\* Mutant: the comma splits every pattern, also one that starts with '~'.
RECURSIVE pattern_matches_splits_regex(_, _)
pattern_matches_splits_regex(pattern, value) ==
    IF pattern = <<>> \/ ~Truthy(value) THEN Answer(FALSE)
    ELSE IF "," \in Range(pattern)
         THEN LET parts == Split(pattern, ",")
                  answers == [i \in DOMAIN parts |->
                                pattern_matches_splits_regex(Strip(parts[i], Whitespace),
                                                             value)]
                  Decides(r) == r.exc # "none" \/ r.ok
                  k == First(answers, Decides)
              IN  IF k = 0 THEN Answer(FALSE) ELSE answers[k]
    ELSE IF Head(pattern) = "~"
         THEN LET r == re_search(Tail(pattern), value[1])
              IN  IF r.exc = "re.error" THEN Answer(FALSE) ELSE r
    ELSE IF "*" \in Range(pattern) \/ "?" \in Range(pattern)
         THEN Answer(fnmatch(Lower(value[1]), Lower(pattern)))
    ELSE Answer(Lower(value[1]) = Lower(pattern))

\* GroupManager.pattern_matches; value is an optional string.
RECURSIVE pattern_matches(_, _)
RECURSIVE AnyPattern(_, _)

\* any(pattern_matches(p, value) for p in patterns): the patterns are
\* tried in order up to the first that matches or raises.
AnyPattern(patterns, value) ==
    IF patterns = <<>> THEN Answer(FALSE)
    ELSE LET r == pattern_matches(Head(patterns), value)
         IN  IF r.exc # "none" \/ r.ok THEN r
             ELSE AnyPattern(Tail(patterns), value)

pattern_matches(pattern, value) ==
    IF pattern = <<>> \/ ~Truthy(value) THEN Answer(FALSE)
    ELSE IF "," \in Range(pattern) /\ Head(pattern) # "~"
         THEN LET parts == Split(pattern, ",")
              IN  AnyPattern([i \in DOMAIN parts |-> Strip(parts[i], Whitespace)], value)
    ELSE IF Head(pattern) = "~"
         THEN LET r == re_search(Tail(pattern), value[1])
              IN  IF r.exc = "re.error" THEN Answer(FALSE) ELSE r
    ELSE IF "*" \in Range(pattern) \/ "?" \in Range(pattern)
         THEN Answer(fnmatch(Lower(value[1]), Lower(pattern)))
    ELSE Answer(Lower(value[1]) = Lower(pattern))

\* The value of a string of decimal digits.
DigitValue ==
    [c \in Digits |->
        CHOOSE n \in 0..9 : <<"0","1","2","3","4","5","6","7","8","9">>[n + 1] = c]

RECURSIVE Decimal(_)
Decimal(s) ==
    IF s = <<>> THEN 0
    ELSE 10 * Decimal(SubSeq(s, 1, Len(s) - 1)) + DigitValue[s[Len(s)]]

\* One part of a dotted quad as ipaddress reads it: one to three digits,
\* no leading zero, at most 255.
IsOctet(s) ==
    /\ Len(s) \in 1..3
    /\ \A i \in DOMAIN s : s[i] \in Digits
    /\ Len(s) > 1 => s[1] # "0"
    /\ Decimal(s) <= 255

\* The IPv6 addresses of the model, with their integer values.
IPv6Literals == {<<":",":","1">>}

NotAnAddress == [ok |-> FALSE, version |-> 0, ip |-> 0]

\* ipaddress.ip_address(s): ok is FALSE where it raises ValueError.
ip_address(s) ==
    LET parts == Split(s, ".")
    IN  IF s \in IPv6Literals THEN [ok |-> TRUE, version |-> 6, ip |-> 1]
        ELSE IF Len(parts) # 4 \/ \E i \in 1..4 : ~IsOctet(parts[i]) THEN NotAnAddress
        ELSE [ok |-> TRUE, version |-> 4,
              ip |-> ((Decimal(parts[1]) * 256 + Decimal(parts[2])) * 256
                       + Decimal(parts[3])) * 256 + Decimal(parts[4])]

RECURSIVE Pow2(_)
Pow2(n) == IF n = 0 THEN 1 ELSE 2 * Pow2(n - 1)

\* ipaddress.ip_address(ip) in ipaddress.ip_network(pattern, strict=False)
\* for an IPv4 pattern address/prefixlen; a ValueError gives "ValueError".
InNetwork(pattern, ip) ==
    LET parts == Split(pattern, "/")
        net == ip_address(parts[1])
        plen == parts[2]
        addr == ip_address(ip)
    IN  IF \/ Len(parts) # 2
           \/ ~net.ok
           \/ net.version # 4
           \/ plen = <<>>
           \/ Len(plen) > 2
           \/ \E i \in DOMAIN plen : plen[i] \notin Digits
        THEN Fails("ValueError")
        ELSE IF Decimal(plen) > 32 THEN Fails("ValueError")
        ELSE IF ~addr.ok THEN Fails("ValueError")
        ELSE IF addr.version # 4 THEN Answer(FALSE)
        ELSE IF Decimal(plen) = 0 THEN Answer(TRUE)
        ELSE Answer(addr.ip \div Pow2(32 - Decimal(plen))
                      = net.ip \div Pow2(32 - Decimal(plen)))

\* Mutant: the comparison is strict.
AddressLt(a, b) ==
    IF a.version # b.version THEN Fails("TypeError") ELSE Answer(a.ip < b.ip)

\* a <= b on two addresses: TypeError when their versions differ.
AddressLe(a, b) ==
    IF a.version # b.version THEN Fails("TypeError") ELSE Answer(a.ip <= b.ip)

\* The body of the range branch of ip_matches, before its except clause.
InRange(pattern, ip) ==
    LET halves == RSplit1(pattern, "-")
        base == halves[1]
        end == halves[2]
        start_ip == ip_address(base)
        end_ip == IF "." \in Range(end) THEN ip_address(end)
                  ELSE ip_address(RSplit1(base, ".")[1] \o <<".">> \o end)
        target == ip_address(ip)
        low == AddressLe(start_ip, target)
    IN  IF ~start_ip.ok \/ ~end_ip.ok \/ ~target.ok THEN Fails("ValueError")
        ELSE IF low.exc # "none" \/ ~low.ok THEN low
        ELSE AddressLe(target, end_ip)

\* try: ... except ValueError: return False
ExceptValueError(r) == IF r.exc = "ValueError" THEN Answer(FALSE) ELSE r

\* GroupManager.ip_matches; ip is an optional string.
ip_matches(pattern, ip) ==
    IF pattern = <<>> \/ ~Truthy(ip) THEN Answer(FALSE)
    ELSE IF "/" \in Range(pattern) THEN ExceptValueError(InNetwork(pattern, ip[1]))
    ELSE IF "-" \in Range(pattern) /\ Head(pattern) # "-"
         THEN ExceptValueError(InRange(pattern, ip[1]))
    ELSE pattern_matches(pattern, ip)

\* Mutant: every pattern of the category has to match.
AllOf(answers) ==
    LET Decides(r) == r.exc # "none" \/ ~r.ok
        k == First(answers, Decides)
    IN  IF k = 0 THEN Answer(TRUE) ELSE answers[k]

\* any(...) over the answers of the patterns in order: the first answer
\* that is a match or a failure decides.
AnyOf(answers) ==
    LET Decides(r) == r.exc # "none" \/ r.ok
        k == First(answers, Decides)
    IN  IF k = 0 THEN Answer(FALSE) ELSE answers[k]

\* A client as the controller reports it: optional strings oui, name,
\* hostname, essid, network, ip and mac (NONE: key absent), and is_wired.
Or(a, b) == IF Truthy(a) THEN a ELSE b
OrEmpty(a) == IF a = NONE THEN Some(<<>>) ELSE a

\* One category of _client_matches_rules: passes without patterns, else
\* some pattern has to match.
VendorMatches(client, rules) ==
    IF ~Truthy(rules.vendor) THEN Answer(TRUE)
    ELSE AnyOf([i \in DOMAIN rules.vendor[1] |->
                   pattern_matches(rules.vendor[1][i], OrEmpty(client.oui))])

NameMatchesRules(client, rules) ==
    IF ~Truthy(rules.name) THEN Answer(TRUE)
    ELSE AnyOf([i \in DOMAIN rules.name[1] |->
                   pattern_matches(rules.name[1][i],
                                   Or(client.name, Or(client.hostname, Some(<<>>))))])

HostnameMatches(client, rules) ==
    IF ~Truthy(rules.hostname) THEN Answer(TRUE)
    ELSE AnyOf([i \in DOMAIN rules.hostname[1] |->
                   pattern_matches(rules.hostname[1][i], OrEmpty(client.hostname))])

NetworkMatches(client, rules) ==
    IF ~Truthy(rules.network) THEN Answer(TRUE)
    ELSE AnyOf([i \in DOMAIN rules.network[1] |->
                   pattern_matches(rules.network[1][i],
                                   Or(client.essid, OrEmpty(client.network)))])

IpMatches(client, rules) ==
    IF ~Truthy(rules.ip) THEN Answer(TRUE)
    ELSE AnyOf([i \in DOMAIN rules.ip[1] |->
                   ip_matches(rules.ip[1][i], OrEmpty(client.ip))])

\* Mutant: the mac patterns go through pattern_matches like the patterns
\* of the other categories.
MacMatchesAsPattern(client, rules) ==
    IF ~Truthy(rules.mac) THEN Answer(TRUE)
    ELSE AnyOf([i \in DOMAIN rules.mac[1] |->
                   pattern_matches(rules.mac[1][i], OrEmpty(client.mac))])

MacMatches(client, rules) ==
    IF ~Truthy(rules.mac) THEN Answer(TRUE)
    ELSE Answer(\E i \in DOMAIN rules.mac[1] :
                   StartsWith(Upper(OrEmpty(client.mac)[1]),
                              Replace(Upper(rules.mac[1][i]), "-", ":")))

ConnTypeMatches(client, rules) ==
    IF ~Truthy(rules.conn_type) THEN Answer(TRUE)
    ELSE Answer(\E i \in DOMAIN rules.conn_type[1] :
                   Lower(rules.conn_type[1][i])
                     = (IF client.is_wired THEN <<"w","i","r","e","d">>
                        ELSE <<"w","i","r","e","l","e","s","s">>))

\* if not <category matches>: return False -- then the rest.
AndThen(r, rest) ==
    IF r.exc # "none" THEN r ELSE IF ~r.ok THEN Answer(FALSE) ELSE rest

\* GroupManager._client_matches_rules
_client_matches_rules(client, rules) ==
    AndThen(VendorMatches(client, rules),
    AndThen(NameMatchesRules(client, rules),
    AndThen(HostnameMatches(client, rules),
    AndThen(NetworkMatches(client, rules),
    AndThen(IpMatches(client, rules),
    AndThen(MacMatches(client, rules),
    AndThen(ConnTypeMatches(client, rules), Answer(TRUE))))))))

\* The loop of evaluate_auto_group: the matching clients so far, or the
\* failure that ended the loop.
RECURSIVE Matching(_, _, _)
Matching(clients, rules, matching) ==
    IF clients = <<>> THEN [exc |-> "none", list |-> matching]
    ELSE LET r == _client_matches_rules(Head(clients), rules)
         IN  IF r.exc # "none" THEN [exc |-> r.exc, list |-> <<>>]
             ELSE Matching(Tail(clients), rules,
                           IF r.ok THEN Append(matching, Head(clients)) ELSE matching)

\* Mutant: only the rules are looked at, not the group's type.
evaluate_auto_group_untyped(d, f, name_or_slug, clients) ==
    LET ld == Data(d, f)
    IN  IF ld.exc # "none" THEN Raise(d, f, ld.exc)
        ELSE
        LET doc == ld.data[1]
            r == _resolve_group(doc.groups, name_or_slug)
        IN  IF ~Truthy(r) THEN Raise(ld.data, f, "NotFound")
            ELSE
            LET group == Get(doc.groups, r[1])
                m == Matching(clients, group.rules[1], <<>>)
            IN  IF group.rules = NONE
                THEN Outcome(ld.data, f, "none", RetList(<<>>))
                ELSE IF m.exc # "none" THEN Raise(ld.data, f, m.exc)
                ELSE Outcome(ld.data, f, "none", RetList(m.list))

\* Mutant: rules without a single pattern count as no rules.
evaluate_auto_group_needs_patterns(d, f, name_or_slug, clients) ==
    LET ld == Data(d, f)
    IN  IF ld.exc # "none" THEN Raise(d, f, ld.exc)
        ELSE
        LET doc == ld.data[1]
            r == _resolve_group(doc.groups, name_or_slug)
        IN  IF ~Truthy(r) THEN Raise(ld.data, f, "NotFound")
            ELSE
            LET group == Get(doc.groups, r[1])
                m == Matching(clients, group.rules[1], <<>>)
            IN  IF \/ group.type # "auto"
                   \/ group.rules = NONE
                   \/ \A category \in DOMAIN group.rules[1] :
                         ~Truthy(group.rules[1][category])
                THEN Outcome(ld.data, f, "none", RetList(<<>>))
                ELSE IF m.exc # "none" THEN Raise(ld.data, f, m.exc)
                ELSE Outcome(ld.data, f, "none", RetList(m.list))

evaluate_auto_group(d, f, name_or_slug, clients) ==
    LET ld == Data(d, f)
    IN  IF ld.exc # "none" THEN Raise(d, f, ld.exc)
        ELSE
        LET doc == ld.data[1]
            r == _resolve_group(doc.groups, name_or_slug)
        IN  IF ~Truthy(r) THEN Raise(ld.data, f, "NotFound")
            ELSE
            LET group == Get(doc.groups, r[1])
                m == Matching(clients, group.rules[1], <<>>)
            IN  IF group.type # "auto" \/ group.rules = NONE
                THEN Outcome(ld.data, f, "none", RetList(<<>>))
                ELSE IF m.exc # "none" THEN Raise(ld.data, f, m.exc)
                ELSE Outcome(ld.data, f, "none", RetList(m.list))

\* Mutant: an unknown group has no members instead of being an error.
get_member_lenient(d, f, name_or_slug, identifier) ==
    LET ld == Data(d, f)
    IN  IF ld.exc # "none" THEN Raise(d, f, ld.exc)
        ELSE
        LET doc == ld.data[1]
            r == _resolve_group(doc.groups, name_or_slug)
            ms == MembersOf(Get(doc.groups, r[1]))
            k == FindMember(ms, identifier)
        IN  IF ~Truthy(r) \/ Get(doc.groups, r[1]).type # "static" \/ ms = <<>> \/ k = 0
            THEN Outcome(ld.data, f, "none", RetList(<<>>))
            ELSE Outcome(ld.data, f, "none", RetList(<<ms[k]>>))

get_member(d, f, name_or_slug, identifier) ==
    LET ld == Data(d, f)
    IN  IF ld.exc # "none" THEN Raise(d, f, ld.exc)
        ELSE
        LET doc == ld.data[1]
            r == _resolve_group(doc.groups, name_or_slug)
        IN  IF ~Truthy(r) THEN Raise(ld.data, f, "NotFound")
            ELSE
            LET group == Get(doc.groups, r[1])
                ms == MembersOf(group)
                k == FindMember(ms, identifier)
            IN  IF group.type # "static" \/ ms = <<>> \/ k = 0
                THEN Outcome(ld.data, f, "none", RetList(<<>>))
                ELSE Outcome(ld.data, f, "none", RetList(<<ms[k]>>))

list_members(d, f, name_or_slug) ==
    LET ld == Data(d, f)
    IN  IF ld.exc # "none" THEN Raise(d, f, ld.exc)
        ELSE
        LET doc == ld.data[1]
            r == _resolve_group(doc.groups, name_or_slug)
        IN  IF ~Truthy(r) THEN Raise(ld.data, f, "NotFound")
            ELSE
            LET group == Get(doc.groups, r[1])
            IN  IF group.type # "static" THEN Raise(ld.data, f, "WrongKind")
                ELSE Outcome(ld.data, f, "none", RetList(MembersOf(group)))

----------------------------------------------------------------------------
\* Inputs.

nKid == <<"K","i","d">>
nKidBang == <<"k","i","d","!">>
nTV == <<"T","V">>
sKid == <<"k","i","d">>
sTV == <<"t","v">>

NAMES == {nKid, nKidBang, nTV}
IDENTS == {sKid, nKidBang, nTV}

mBare == <<"a","a","b","b","c","c","d","d","e","e","f","f">>
mDash == <<"A","A","-","B","B","-","C","C","-","D","D","-","E","E","-","F","F">>
mColon == <<"A","A",":","B","B",":","C","C",":","D","D",":","E","E",":","F","F">>
mOther == <<"1","1",".","2","2",".","3","3",".","4","4",".","5","5",".","6","6">>
aTab == <<"t","a","b">>
aPad == <<"p","a","d">>

MACS == {mBare, mDash}
ALIASES == {NONE, Some(aTab)}
MEMBER_IDS == {mColon, aTab}

Rules0 == [vendor |-> NONE, name |-> NONE, hostname |-> NONE, network |-> NONE,
           ip |-> NONE, mac |-> NONE, conn_type |-> NONE]
rApple == [Rules0 EXCEPT !.vendor = Some(<< <<"A","p","p","l","e">> >>)]
rWired == [Rules0 EXCEPT !.conn_type = Some(<< <<"w","i","r","e","d">> >>)]

RULES == {rApple, rWired}

Omitted == [given |-> FALSE, value |-> NONE]
Given(v) == [given |-> TRUE, value |-> v]
DESCRIPTIONS == {NONE, Some("kids")}

\* Documents handed to import_groups, as json.loads reads them from a file.
JsonTimeAt(t) == Some([form |-> "str", t |-> t])

RawGroup(name, type, members, rules) ==
    [name |-> name, description |-> Some("kids"), type |-> type, members |-> members,
     rules |-> rules, created_at |-> JsonTimeAt(0), updated_at |-> JsonTimeAt(1)]

RawDoc(entries) == [version |-> Some(1), groups |-> Some(entries)]

rawMemberTab == [mac |-> Some(mColon), alias |-> Some(aTab)]

\* One static group under its own slug.
docKid == RawDoc(<<[slug |-> sKid,
                    group |-> RawGroup(Some(nKid), Some("static"),
                                       Some(<<rawMemberTab>>), NONE)]>>)
\* A group stored under a key that is not the slug of its name, and a
\* static group that carries rules.
docOdd == RawDoc(<<[slug |-> sTV,
                    group |-> RawGroup(Some(nKid), NONE, NONE, Some(rApple))]>>)
\* A group whose type is not one of the two literals.
docBadType == RawDoc(<<[slug |-> sKid,
                        group |-> RawGroup(Some(nKid), Some("dynamic"), NONE, NONE)]>>)
\* A valid group followed by one without a name.
docNoName == RawDoc(<<[slug |-> sTV,
                       group |-> RawGroup(Some(nTV), Some("auto"), NONE, NONE)],
                      [slug |-> sKid,
                       group |-> RawGroup(NONE, Some("static"), NONE, NONE)]>>)

IMPORTS == {docKid, docOdd, docBadType, docNoName}

\* What the file may hold when a manager is constructed.
FILES == {FileMissing, FileNotJson, FileNotObject, FileObject(docNoName),
          FileObject(docKid)}

\* Clients as the controller lists them, and rules for auto groups.
Client0 == [oui |-> NONE, name |-> NONE, hostname |-> NONE, essid |-> NONE,
            network |-> NONE, ip |-> NONE, mac |-> NONE, is_wired |-> FALSE]

pApple == <<"A","p","p","l","e">>
pSamsung == <<"S","a","m","s","u","n","g">>
pWireless == <<"W","i","r","e","l","e","s","s">>
pPadStar == <<"*","p","a","d">>
pHome == <<"h","o","m","e">>
pRange == <<"1","0",".","0",".","0",".","5","-","9">>
pMacPrefix == <<"a","a","-","b","b">>

cAppleWireless ==
    [Client0 EXCEPT !.oui = Some(<<"A","P","P","L","E">>), !.name = Some(<<"i","P","a","d">>),
                    !.essid = Some(<<"H","o","m","e">>), !.ip = Some(<<"1","0",".","0",".","0",".","7">>),
                    !.mac = Some(<<"a","a",":","b","b",":","c","c",":","d","d",":","e","e",":","f","f">>)]
cAppleWired ==
    [Client0 EXCEPT !.oui = Some(<<"A","p","p","l","e">>), !.hostname = Some(<<"i","p","a","d">>),
                    !.network = Some(<<"h","o","m","e">>), !.ip = Some(<<"1","0",".","0",".","0",".","1","0">>),
                    !.mac = Some(<<"A","A",":","B","B",":","0","0",":","0","0",":","0","0",":","0","1">>), !.is_wired = TRUE]
cSamsungWireless ==
    [Client0 EXCEPT !.oui = Some(<<"S","a","m","s","u","n","g">>), !.name = Some(<<"t","v">>),
                    !.hostname = Some(<<"i","p","a","d">>), !.essid = Some(<<"G","u","e","s","t">>),
                    !.network = Some(<<"h","o","m","e">>), !.ip = Some(<<"1","0",".","0",".","0",".","5">>),
                    !.mac = Some(<<"1","1",":","2","2",":","3","3",":","4","4",":","5","5",":","6","6">>)]
cBare == [Client0 EXCEPT !.is_wired = TRUE]

CLIENTS == {cAppleWireless, cAppleWired, cSamsungWireless, cBare}

CLIENT_LISTS ==
    {<<>>,
      <<cAppleWireless, cAppleWired, cSamsungWireless, cBare>>,
      <<cBare, cSamsungWireless, cAppleWired, cAppleWireless, cAppleWired>>}

rAppleWireless == [Rules0 EXCEPT !.vendor = Some(<<pApple>>),
                                 !.conn_type = Some(<<pWireless>>)]
rEitherVendor == [Rules0 EXCEPT !.vendor = Some(<<pSamsung, pApple>>)]
rNamed == [Rules0 EXCEPT !.name = Some(<<pPadStar>>), !.vendor = Some(<<>>)]
rHost == [Rules0 EXCEPT !.hostname = Some(<<pPadStar>>), !.network = Some(<<pHome>>)]
rAddressed == [Rules0 EXCEPT !.ip = Some(<<pRange>>), !.mac = Some(<<pMacPrefix>>)]

\* Every category present and empty, and some present and empty.
rAllEmpty == [category \in DOMAIN Rules0 |-> Some(<<>>)]
rSomeEmpty == [Rules0 EXCEPT !.name = Some(<<>>), !.mac = Some(<<>>)]

AUTO_RULES == {NONE, Some(Rules0), Some(rApple), Some(rWired), Some(rAppleWireless),
               Some(rEitherVendor), Some(rNamed), Some(rHost), Some(rAddressed),
               Some(rAllEmpty), Some(rSomeEmpty)}

\* Patterns and values handed to pattern_matches.
PATTERNS ==
    {<<>>,
     <<"A","p","p","l","e">>,
     <<"p","p">>,
     <<"a","p","p","l","e",",","s","a","m","s","u","n","g">>,
     <<" ","a","p","p","l","e"," ",","," ","s","a","m","*">>,
     <<"~","p","p">>,
     <<"~","^","p","p">>,
     <<"~","p","p","l","e","$">>,
     <<"~","a",".","c">>,
     <<"~","a",",","b">>,
     <<"a",",","~","b">>,
     <<"*","p","p","*">>,
     <<"A","p","p","?","e">>,
     <<"a","?","c">>,
     <<"?",",","*">>,
     <<"~","(">>,
     <<"~","[">>,
     <<"~","*">>,
     <<"~">>,
     <<"~","a","{","9","9","9","9","9","9","9","9","9","9","9","}">>,
     <<"x",",","~","a","{","9","9","9","9","9","9","9","9","9","9","9","}">>}

VALUES ==
    {NONE,
     Some(<<>>),
     Some(<<"A","P","P","L","E">>),
     Some(<<"S","a","m","s","u","n","g">>),
     Some(<<"a",",","b">>),
     Some(<<"a">>),
     Some(<<"x","b","x">>),
     Some(<<"a","b","c">>),
     Some(<<"a","?","c">>)}

\* Patterns and addresses handed to ip_matches.
IP_PATTERNS ==
    {<<>>,
     <<"1","0",".","0",".","0",".","5","-","9">>,
     <<"1","0",".","0",".","0",".","5","-","3">>,
     <<"1","0",".","0",".","0",".","5","-","5">>,
     <<"1","0",".","0",".","0",".","5","-","1","0",".","0",".","1",".","2">>,
     <<"1","0",".","0",".","1",".","2","-","1","0",".","0",".","0",".","5">>,
     <<"1","0",".","0",".","0",".","5","-","3","0","0">>,
     <<"1","0",".","0",".","0",".","5","-">>,
     <<"-","5">>,
     <<"1","0",".","0",".","0",".","0","/","2","4">>,
     <<"1","0",".","0",".","0",".","0","/","3","3">>,
     <<"1","0",".","0",".","0",".","7","/","3","2">>,
     <<"1","0",".","0",".","0",".","*">>,
     <<":",":","1","-","1","0",".","0",".","0",".","9">>,
     <<"b","o","g","u","s","-","9">>,
     <<"1","0",".","0",".","0",".","7">>}

ADDRESSES ==
    {NONE,
     Some(<<>>),
     Some(<<"1","0",".","0",".","0",".","4">>),
     Some(<<"1","0",".","0",".","0",".","5">>),
     Some(<<"1","0",".","0",".","0",".","7">>),
     Some(<<"1","0",".","0",".","0",".","9">>),
     Some(<<"1","0",".","0",".","0",".","1","0">>),
     Some(<<"1","0",".","0",".","1",".","2">>),
     Some(<<"1","0",".","0",".","1",".","3">>),
     Some(<<"9",".","2","5","5",".","2","5","5",".","2","5","5">>),
     Some(<<":",":","1">>),
     Some(<<"b","o","g","u","s">>)}

\* Names handed to slugify and create_group.
nKidsDevices == <<"K","i","d","s"," ","D","e","v","i","c","e","s">>
nMyGroup == <<" "," ","M","y"," ","G","r","o","u","p","!"," "," ">>
nBang == <<"!">>
nHyphens == <<"-","-","a","-","-","B","-","-">>
sMyGroup == <<"m","y","-","g","r","o","u","p">>

SLUG_NAMES == {nKid, nKidBang, nKidsDevices, nMyGroup, nBang, nHyphens}

\* Arguments of normalize_mac: every string of up to MaxMacLen characters
\* of MAC_CHARS, and strings of 11, 12 and 13 characters.
MAC_CHARS == {"a", "A", "1", "-", ".", ":"}
SHORT_MACS == UNION {[1..n -> MAC_CHARS] : n \in 0..MaxMacLen}

hAABB == <<"A","A","B","B","C","C","D","D","E","E","F","F">>
h01AB == <<"0","1","A","B","2","3","C","D","4","5","E","F">>
HW_ADDRESSES == {hAABB, h01AB}

\* One hardware address written with separator sep ("" for none), in
\* lower case if lower.
Spell(h, sep, lower) ==
    LET spaced == IF sep = "" THEN h
                  ELSE <<h[1], h[2], sep, h[3], h[4], sep, h[5], h[6], sep,
                         h[7], h[8], sep, h[9], h[10], sep, h[11], h[12]>>
    IN  IF lower THEN Lower(spaced) ELSE spaced

SPELLINGS == {Spell(h, sep, lower) :
                 h \in HW_ADDRESSES, sep \in {"", "-", ":"}, lower \in BOOLEAN}

LONG_MACS ==
    { <<"a","a","b","b","c","c","d","d","e","e","f">>,
      <<"a","a","b","b","c","c","d","d","e","e","f","f","0">>,
      <<"a","a","b","b","c","c","d","d","e","e","-","f">>,
      <<"a","a","b","b",".","c","c","d","d",".","e","e","f","f">>,
      <<"g","g","g","g","g","g","g","g","g","g","g","g">>,
      <<" ","a","a","b","b","c","c","d","d","e","e","f","f">>,
      Spell(hAABB, ".", TRUE) }

MAC_INPUTS == SHORT_MACS \cup SPELLINGS \cup LONG_MACS

\* Clients and mac patterns for the mac category.
cDashMac == [Client0 EXCEPT !.mac = Some(Spell(hAABB, "-", FALSE))]
cDotMac == [Client0 EXCEPT !.mac = Some(<<"a","a","b","b",".","c","c","d","d",".","e","e","f","f">>)]
cStarMac == [Client0 EXCEPT !.mac = Some(<<"*","a",":","b","b">>)]

MAC_CLIENT_LISTS ==
    { <<cAppleWireless, cAppleWired, cSamsungWireless, cBare>>,
      <<cDashMac, cDotMac, cStarMac, cAppleWireless>>,
      <<cBare, cSamsungWireless>> }

MAC_PATTERNS ==
    { pMacPrefix,
      <<"A","A",":","B","B">>,
      <<"a","a",".","b","b">>,
      <<"a","a","b","b">>,
      <<"a","a","b","b",":","c","c">>,
      <<"*">>,
      <<"a","a",":","b","?">>,
      <<"~","a","a">>,
      <<"a","a",":","b","b",",","1","1">>,
      <<>>,
      <<"1","1","-","2","2","-","3","3","-","4","4","-","5","5","-","6","6">>,
      <<"1","1",":","2","2",":","3","3",":","4","4",":","5","5",":","6","6",":","7","7">> }

MAC_PATTERN_LISTS ==
    {<<p>> : p \in MAC_PATTERNS}
       \cup { <<>>, <<pMacPrefix, <<"1","1">> >>, << <<"2","2">>, <<"a","a",".","b","b">> >> }

----------------------------------------------------------------------------
\* The state machine: one manager, its file, the clock, and the outcome of
\* the manager's last call (n0: how many groups its document held before
\* the call, 0 when it was not loaded).

Last0 == [op |-> "init", exc |-> "none", ret |-> Ret0, n0 |-> 0, by |-> 1]

\* No matcher has been called.
NoCall == [fn |-> "none"]

Size(d) == IF d = NONE THEN 0 ELSE Len(d[1].groups)

\* The manager's call op ends with outcome out.
Returns(op, out) ==
    /\ data' = out.data
    /\ file' = out.file
    /\ last' = [op |-> op, exc |-> out.exc, ret |-> out.ret, n0 |-> Size(data), by |-> 1]
    /\ UNCHANGED <<data2, call>>

Init ==
    /\ data = NONE
    /\ data2 = NONE
    /\ file \in FILES
    /\ now = 0
    /\ last = Last0
    /\ call = NoCall

\* GroupManager(): a fresh manager on the same path.
NewManager ==
    /\ data' = NONE
    /\ last' = [Last0 EXCEPT !.op = "new"]
    /\ UNCHANGED <<data2, file, now, call>>

\* Time passes.
Tick ==
    /\ now < MaxClock
    /\ now' = now + 1
    /\ UNCHANGED <<data, data2, file, last, call>>

ListGroups ==
    /\ Returns("list_groups", list_groups(data, file))
    /\ UNCHANGED now

GetGroup(id) ==
    /\ Returns("get_group", get_group(data, file, id))
    /\ UNCHANGED now

CreateGroup(name, description, group_type, rules) ==
    /\ Returns("create_group",
               create_group(data, file, now, name, description, group_type, rules))
    /\ UNCHANGED now

DeleteGroup(id) ==
    /\ Returns("delete_group", delete_group(data, file, id))
    /\ UNCHANGED now

UpdateGroup(id, new_name, description) ==
    /\ Returns("update_group", update_group(data, file, now, id, new_name, description))
    /\ UNCHANGED now

AddMember(id, mac, alias) ==
    /\ Returns("add_member", add_member(data, file, now, id, mac, alias))
    /\ UNCHANGED now

UpdateMember(id, identifier, alias) ==
    /\ Returns("update_member", update_member(data, file, now, id, identifier, alias))
    /\ UNCHANGED now

RemoveMember(id, identifier) ==
    /\ Returns("remove_member", remove_member(data, file, now, id, identifier))
    /\ UNCHANGED now

ClearMembers(id) ==
    /\ Returns("clear_members", clear_members(data, file, now, id))
    /\ UNCHANGED now

SetRules(id, rules) ==
    /\ Returns("set_rules", set_rules(data, file, now, id, rules))
    /\ UNCHANGED now

ImportGroups(raw, replace) ==
    /\ Returns("import_groups", import_groups(data, file, raw, replace))
    /\ UNCHANGED now

\* import_groups(export_groups(), replace=True)
ExportImport ==
    /\ Data(data, file).exc = "none"
    /\ Returns("export_import",
               import_groups(Data(data, file).data, file,
                             export_groups(Data(data, file).data[1]), TRUE))
    /\ UNCHANGED now

\* Every operation, with the clock standing still.
Next ==
    \/ NewManager
    \/ ListGroups
    \/ \E id \in IDENTS : GetGroup(id)
    \/ \E n \in NAMES, ty \in GroupTypes : CreateGroup(n, NONE, ty, Some(rApple))
    \/ \E id \in IDENTS : DeleteGroup(id)
    \/ \E id \in IDENTS, nn \in {NONE} \cup {Some(n) : n \in NAMES} :
          UpdateGroup(id, nn, Omitted)
    \/ \E id \in IDENTS, a \in ALIASES : AddMember(id, mBare, a)
    \/ \E id \in IDENTS : UpdateMember(id, mColon, Given(NONE))
    \/ \E id \in IDENTS : RemoveMember(id, aTab)
    \/ \E id \in IDENTS : ClearMembers(id)
    \/ \E id \in IDENTS : SetRules(id, rWired)
    \/ \E raw \in IMPORTS, replace \in BOOLEAN : ImportGroups(raw, replace)
    \/ ExportImport

Spec == Init /\ [][Next]_vars

\* A fresh store in which one static and one auto group are created and
\* the member operations run while time passes.
MACS_M == {mBare, mDash, mOther}
ALIASES_M == {NONE, Some(<<>>), Some(aTab), Some(aPad)}
MEMBER_IDS_M == {mColon, mOther, aTab}
IDENTS_M == {sKid, nTV}

\* Calls on the static group, and one call on the auto group.
ADD_CALLS == ({sKid} \X MACS_M \X ALIASES_M) \cup {<<nTV, mBare, NONE>>}
UPDATE_CALLS ==
    ({sKid} \X MEMBER_IDS_M \X {Omitted, Given(NONE), Given(Some(aPad))})
        \cup {<<nTV, mColon, Given(NONE)>>}
REMOVE_CALLS == ({sKid} \X MEMBER_IDS_M) \cup {<<nTV, mColon>>}

InitMembers ==
    /\ data = NONE
    /\ data2 = NONE
    /\ file = FileMissing
    /\ now = 0
    /\ last = Last0
    /\ call = NoCall

NextMembers ==
    \/ Tick
    \/ CreateGroup(nKid, NONE, "static", NONE)
    \/ CreateGroup(nTV, NONE, "auto", Some(rApple))
    \/ \E c \in ADD_CALLS : AddMember(c[1], c[2], c[3])
    \/ \E c \in UPDATE_CALLS : UpdateMember(c[1], c[2], c[3])
    \/ \E c \in REMOVE_CALLS : RemoveMember(c[1], c[2])
    \/ \E id \in IDENTS_M : ClearMembers(id)

SpecMembers == InitMembers /\ [][NextMembers]_vars

\* Two managers on the same file, neither locking it.  Manager 1 keeps its
\* document in data, manager 2 in data2.
Returns2(op, out) ==
    /\ data2' = out.data
    /\ file' = out.file
    /\ last' = [op |-> op, exc |-> out.exc, ret |-> out.ret, n0 |-> Size(data2), by |-> 2]
    /\ UNCHANGED <<data, call>>

ListGroups2 ==
    /\ Returns2("list_groups", list_groups(data2, file))
    /\ UNCHANGED now

CreateGroup2(name, description, group_type, rules) ==
    /\ Returns2("create_group",
                create_group(data2, file, now, name, description, group_type, rules))
    /\ UNCHANGED now

DeleteGroup2(id) ==
    /\ Returns2("delete_group", delete_group(data2, file, id))
    /\ UNCHANGED now

AddMember2(id, mac, alias) ==
    /\ Returns2("add_member", add_member(data2, file, now, id, mac, alias))
    /\ UNCHANGED now

InitTwo ==
    /\ data = NONE
    /\ data2 = NONE
    /\ file \in {FileMissing, FileObject(docKid)}
    /\ now = 0
    /\ last = Last0
    /\ call = NoCall

NextTwo ==
    \/ ListGroups
    \/ \E n \in NAMES : CreateGroup(n, NONE, "static", NONE)
    \/ \E id \in IDENTS : DeleteGroup(id)
    \/ \E id \in IDENTS, a \in ALIASES : AddMember(id, mBare, a)
    \/ ListGroups2
    \/ \E n \in NAMES : CreateGroup2(n, NONE, "static", NONE)
    \/ \E id \in IDENTS : DeleteGroup2(id)
    \/ \E id \in IDENTS, a \in ALIASES : AddMember2(id, mBare, a)

SpecTwo == InitTwo /\ [][NextTwo]_vars

\* A call whose arguments are kept in call (fn names the method).
ReturnsOf(op, args, out) ==
    /\ data' = out.data
    /\ file' = out.file
    /\ last' = [op |-> op, exc |-> out.exc, ret |-> out.ret, n0 |-> Size(data), by |-> 1]
    /\ call' = args
    /\ UNCHANGED data2

GetMember(id, identifier) ==
    /\ Returns("get_member", get_member(data, file, id, identifier))
    /\ UNCHANGED now

ListMembers(id) ==
    /\ Returns("list_members", list_members(data, file, id))
    /\ UNCHANGED now

EvaluateAutoGroup(id, clients) ==
    /\ ReturnsOf("evaluate_auto_group",
                 [fn |-> "evaluate_auto_group", id |-> id, clients |-> clients],
                 evaluate_auto_group(data, file, id, clients))
    /\ UNCHANGED now

\* A store with a static group "Kid" and an auto group "TV", and every
\* operation that takes a group identifier.
InitKinds ==
    /\ data = NONE
    /\ data2 = NONE
    /\ file \in {FileMissing, FileNotJson, FileObject(docKid)}
    /\ now = 0
    /\ last = Last0
    /\ call = NoCall

NextKinds ==
    \/ CreateGroup(nKid, NONE, "static", NONE)
    \/ CreateGroup(nTV, NONE, "auto", Some(rApple))
    \/ \E id \in IDENTS : DeleteGroup(id)
    \/ \E id \in IDENTS : UpdateGroup(id, NONE, Given(Some("kids")))
    \/ \E id \in IDENTS, a \in ALIASES : AddMember(id, mBare, a)
    \/ \E id \in IDENTS : GetMember(id, mColon)
    \/ \E id \in IDENTS : UpdateMember(id, mColon, Given(NONE))
    \/ \E id \in IDENTS : RemoveMember(id, aTab)
    \/ \E id \in IDENTS : ListMembers(id)
    \/ \E id \in IDENTS : ClearMembers(id)
    \/ \E id \in IDENTS : SetRules(id, rWired)
    \/ \E id \in IDENTS : EvaluateAutoGroup(id, <<cAppleWireless, cAppleWired>>)

SpecKinds == InitKinds /\ [][NextKinds]_vars

\* A static group "Kid", an auto group "TV" whose rules vary, an imported
\* static group that carries rules, and evaluations of client lists.
InitAuto ==
    /\ data = NONE
    /\ data2 = NONE
    /\ file = FileMissing
    /\ now = 0
    /\ last = Last0
    /\ call = NoCall

NextAuto ==
    \/ CreateGroup(nKid, NONE, "static", NONE)
    \/ \E r \in AUTO_RULES : CreateGroup(nTV, NONE, "auto", r)
    \/ \E r \in AUTO_RULES \ {NONE} : SetRules(nTV, r[1])
    \/ \E id \in {sKid, nTV} : DeleteGroup(id)
    \/ ImportGroups(docOdd, FALSE)
    \/ \E id \in {sKid, nTV}, clients \in CLIENT_LISTS : EvaluateAutoGroup(id, clients)

SpecAuto == InitAuto /\ [][NextAuto]_vars

\* The matchers as pure functions: the arguments are drawn at the start
\* and one call is made.
MatcherReturns(op, r) ==
    /\ last' = [op |-> op, exc |-> r.exc, ret |-> RetBool(r.ok), n0 |-> 0, by |-> 1]
    /\ UNCHANGED <<data, data2, file, now, call>>

PatternMatches ==
    /\ last.op = "init"
    /\ call.fn = "pattern_matches"
    /\ MatcherReturns("pattern_matches", pattern_matches(call.pattern, call.value))

IpMatchesCall ==
    /\ last.op = "init"
    /\ call.fn = "ip_matches"
    /\ MatcherReturns("ip_matches", ip_matches(call.pattern, call.value))

InitMatch ==
    /\ data = NONE
    /\ data2 = NONE
    /\ file = FileMissing
    /\ now = 0
    /\ last = Last0
    /\ call \in [fn : {"pattern_matches"}, pattern : PATTERNS, value : VALUES]
                \cup [fn : {"ip_matches"}, pattern : IP_PATTERNS, value : ADDRESSES]

NextMatch ==
    \/ PatternMatches
    \/ IpMatchesCall

SpecMatch == InitMatch /\ [][NextMatch]_vars

\* Groups created under many names, and slugify called on its own.
Slugify(name) ==
    /\ last' = [op |-> "slugify", exc |-> "none", ret |-> RetSlug(slugify(name)),
                n0 |-> Size(data), by |-> 1]
    /\ call' = [fn |-> "slugify", name |-> name]
    /\ UNCHANGED <<data, data2, file, now>>

CreateNamed(name) ==
    /\ ReturnsOf("create_group", [fn |-> "create_group", name |-> name],
                 create_group(data, file, now, name, NONE, "static", NONE))
    /\ UNCHANGED now

InitSlug ==
    /\ data = NONE
    /\ data2 = NONE
    /\ file = FileMissing
    /\ now = 0
    /\ last = Last0
    /\ call = NoCall

NextSlug ==
    \/ \E name \in SLUG_NAMES : Slugify(name)
    \/ \E name \in SLUG_NAMES : CreateNamed(name)

SpecSlug == InitSlug /\ [][NextSlug]_vars

\* normalize_mac called on its own, on a fresh argument or on what the
\* previous call returned.
NormalizeMac(mac) ==
    /\ last' = [op |-> "normalize_mac", exc |-> "none",
                ret |-> RetList(normalize_mac(mac)), n0 |-> 0, by |-> 1]
    /\ call' = [fn |-> "normalize_mac", mac |-> mac]
    /\ UNCHANGED <<data, data2, file, now>>

NormalizeReturned ==
    /\ last.op = "normalize_mac"
    /\ NormalizeMac(last.ret.list)

InitMac ==
    /\ data = NONE
    /\ data2 = NONE
    /\ file = FileMissing
    /\ now = 0
    /\ last = Last0
    /\ call = NoCall

NextMac ==
    \/ \E mac \in MAC_INPUTS : NormalizeMac(mac)
    \/ NormalizeReturned

SpecMac == InitMac /\ [][NextMac]_vars

\* An auto group "TV" whose rules have mac patterns only, and
\* evaluations of client lists.
InitMacRule ==
    /\ data = NONE
    /\ data2 = NONE
    /\ file = FileMissing
    /\ now = 0
    /\ last = Last0
    /\ call = NoCall

NextMacRule ==
    \/ CreateGroup(nTV, NONE, "auto", Some(Rules0))
    \/ \E ps \in MAC_PATTERN_LISTS : SetRules(nTV, [Rules0 EXCEPT !.mac = Some(ps)])
    \/ \E clients \in MAC_CLIENT_LISTS : EvaluateAutoGroup(nTV, clients)

SpecMacRule == InitMacRule /\ [][NextMacRule]_vars

\* A static group whose members are removed by address and by alias
\* while time passes; one alias reads like an address.
RemoveMemberCall(id, identifier) ==
    /\ ReturnsOf("remove_member",
                 [fn |-> "remove_member", id |-> id, identifier |-> identifier],
                 remove_member(data, file, now, id, identifier))
    /\ UNCHANGED now

InitRemove ==
    /\ data = NONE
    /\ data2 = NONE
    /\ file = FileMissing
    /\ now = 0
    /\ last = Last0
    /\ call = NoCall

NextRemove ==
    \/ Tick
    \/ CreateGroup(nKid, NONE, "static", NONE)
    \/ \E mac \in {mBare, mOther}, a \in {NONE, Some(aTab), Some(mOther)} :
          AddMember(sKid, mac, a)
    \/ \E identifier \in {mColon, mOther, aTab, aPad} : RemoveMemberCall(nKid, identifier)

SpecRemove == InitRemove /\ [][NextRemove]_vars

\* A static group "Kid" with a description and an auto group "TV",
\* updated, renamed and deleted while time passes.
UpdateGroupCall(id, new_name, description) ==
    /\ ReturnsOf("update_group",
                 [fn |-> "update_group", id |-> id, new_name |-> new_name,
                  description |-> description],
                 update_group(data, file, now, id, new_name, description))
    /\ UNCHANGED now

UPDATE_GROUP_CALLS ==
    {sKid, nTV} \X {NONE, Some(nKidBang), Some(nTV)}
                \X {Omitted, Given(NONE), Given(Some("tv"))}

InitStamps ==
    /\ data = NONE
    /\ data2 = NONE
    /\ file = FileMissing
    /\ now = 0
    /\ last = Last0
    /\ call = NoCall

NextStamps ==
    \/ Tick
    \/ CreateGroup(nKid, Some("kids"), "static", NONE)
    \/ CreateGroup(nTV, NONE, "auto", Some(rApple))
    \/ \E c \in UPDATE_GROUP_CALLS : UpdateGroupCall(c[1], c[2], c[3])
    \/ \E id \in {sKid, nTV} : DeleteGroup(id)

SpecStamps == InitStamps /\ [][NextStamps]_vars

\* The groups "Kid" and "TV" created, renamed onto new and onto each
\* other's keys, given members and rules, deleted and created again
\* while time passes.
InitCreated ==
    /\ data = NONE
    /\ data2 = NONE
    /\ file = FileMissing
    /\ now = 0
    /\ last = Last0
    /\ call = NoCall

NextCreated ==
    \/ Tick
    \/ CreateGroup(nKid, NONE, "static", NONE)
    \/ CreateGroup(nTV, NONE, "auto", Some(rApple))
    \/ \E id \in {sKid, nTV}, nn \in {NONE, Some(nKidBang), Some(nTV)} :
          UpdateGroupCall(id, nn, Omitted)
    \/ \E id \in {sKid, nTV} : DeleteGroup(id)
    \/ \E id \in {sKid, nTV}, a \in ALIASES : AddMember(id, mBare, a)
    \/ \E id \in {sKid, nTV} : UpdateMember(id, mColon, Given(NONE))
    \/ \E id \in {sKid, nTV} : RemoveMember(id, mColon)
    \/ \E id \in {sKid, nTV} : ClearMembers(id)
    \/ \E id \in {sKid, nTV} : SetRules(id, rWired)

SpecCreated == InitCreated /\ [][NextCreated]_vars

----------------------------------------------------------------------------
\* Properties.

\* The document the manager works on when a call starts: _data, or what
\* the first access loads (NONE when that load raises).
View == Data(data, file).data

Groups(d) == d[1].groups

MutatingOps == {"create_group", "delete_group", "update_group", "add_member",
                "update_member", "remove_member", "clear_members", "set_rules",
                "import_groups"}

\* Calls that return without writing: nothing was found to change.
ReturnedFalse ==
    last.op \in {"delete_group", "update_member", "remove_member"} /\ ~last.ret.ok

\* C1: after every mutating operation that returns, the file holds exactly
\* the manager's document: it is what _save writes for it, and a new
\* manager loading the file gets the same slugs and the same groups.
C1_FileHoldsDocument ==
    (last.op \in MutatingOps /\ last.exc = "none") =>
        /\ data # NONE
        /\ ReturnedFalse \/ file = _save(data[1])
        /\ _load(file) = [exc |-> "none", data |-> data]

C1_Witness ==
    /\ last.op = "add_member"
    /\ last.exc = "none"
    /\ Size(data) = 2
    /\ \E i \in DOMAIN Groups(data) :
          /\ Groups(data)[i].group.members # NONE
          /\ \E k \in DOMAIN Groups(data)[i].group.members[1] :
                Groups(data)[i].group.members[1][k].alias # NONE

\* C2: create_group(name) stores the group under slugify(name) and returns
\* that slug; when that slug is already a key it fails with AlreadyExists
\* and changes neither the document nor the file.
C2_CreateGroup ==
    [][\A n \in NAMES, ty \in GroupTypes :
         (last'.op = "create_group" /\ View # NONE
            /\ CreateGroup(n, NONE, ty, Some(rApple))) =>
            IF slugify(n) \in Keys(Groups(View))
            THEN /\ last'.exc = "AlreadyExists"
                 /\ data' = View
                 /\ file' = file
            ELSE /\ last'.exc = "none"
                 /\ last'.ret.slug = Some(slugify(n))
                 /\ Keys(Groups(data')) = Keys(Groups(View)) \cup {slugify(n)}
                 /\ Get(Groups(data'), slugify(n)).name = n
                 /\ Get(Groups(data'), slugify(n)).type = ty]_vars

C2_Witness ==
    /\ last.op = "create_group"
    /\ last.exc = "AlreadyExists"
    /\ Size(data) = 2

NameMatches(gs, id) == {i \in DOMAIN gs : Lower(gs[i].group.name) = Lower(id)}

\* C4 as claimed: the identifier resolves to itself when it is a key,
\* else to the key of a group with that name (case-insensitively), else
\* to nothing.
C4_ResolveByKeyItself ==
    data # NONE =>
        \A id \in IDENTS :
            LET gs == Groups(data)
                r == _resolve_group(gs, id)
            IN  IF id \in Keys(gs) THEN r = Some(id)
                ELSE IF NameMatches(gs, id) # {}
                     THEN r # NONE /\ \E i \in NameMatches(gs, id) : r = Some(gs[i].slug)
                     ELSE r = NONE

\* C4 amended: the identifier resolves to slugify(identifier) when that is
\* a key; else to the key of the first group, in map order, whose name
\* equals the identifier case-insensitively; else to nothing.
C4_ResolveBySlugOfIdentifier ==
    data # NONE =>
        \A id \in IDENTS :
            LET gs == Groups(data)
                r == _resolve_group(gs, id)
                hits == NameMatches(gs, id)
            IN  IF slugify(id) \in Keys(gs) THEN r = Some(slugify(id))
                ELSE IF hits # {}
                     THEN r = Some(gs[CHOOSE i \in hits : \A j \in hits : i <= j].slug)
                     ELSE r = NONE

\* get_group has just resolved an identifier by its name, not its slug.
C4_Witness ==
    /\ last.op = "get_group"
    /\ last.ret.slug = Some(sTV)
    /\ data # NONE
    /\ sKid \notin Keys(Groups(data))
    /\ Lower(Get(Groups(data), sTV).name) = sKid

\* C6: every static group has no rules and every auto group has no member
\* list.
C6_OneOfMembersRules ==
    data # NONE =>
        \A i \in DOMAIN Groups(data) :
            LET g == Groups(data)[i].group
            IN  /\ g.type = "static" => g.rules = NONE
                /\ g.type = "auto" => g.members = NONE

\* C7: a replacing import makes the store the imported document; a merging
\* import sets every imported slug to the imported group and leaves every
\* other group as it was.  Either way the result is written to the file.
C7_ImportReplaceOrMerge ==
    [][\A raw \in IMPORTS, replace \in BOOLEAN :
         LET imported == ParseGroupsFile(raw)
             before == Groups(View)
             after == Groups(data')
         IN  (last'.op = "import_groups" /\ ValidGroupsFile(raw)
                /\ (replace \/ View # NONE)
                /\ ImportGroups(raw, replace)) =>
               /\ last'.exc = "none"
               /\ file' = _save(data'[1])
               /\ _load(file').data = data'
               /\ replace => data' = Some(imported)
               /\ ~replace =>
                    /\ Keys(after) = Keys(before) \cup Keys(imported.groups)
                    /\ \A s \in Keys(imported.groups) :
                          Get(after, s) = Get(imported.groups, s)
                    /\ \A s \in Keys(before) \ Keys(imported.groups) :
                          Get(after, s) = Get(before, s)]_vars

\* A replacing import has just dropped a group that was not in the import.
C7_Witness ==
    /\ last.op = "import_groups"
    /\ last.exc = "none"
    /\ last.n0 = 2
    /\ last.ret.count = 1
    /\ Size(data) = 1

\* C8: import_groups(export_groups(), replace=True) leaves the same slugs
\* with the same group contents.
C8_ExportImportRoundTrip ==
    [][last'.op = "export_import" =>
         /\ last'.exc = "none"
         /\ data' = View
         /\ last'.ret.count = Len(Groups(View))]_vars

C8_Witness ==
    /\ last.op = "export_import"
    /\ last.exc = "none"
    /\ Size(data) = 2
    /\ \E i, j \in DOMAIN Groups(data) :
          /\ Groups(data)[i].group.rules # NONE
          /\ Groups(data)[j].group.members # NONE
          /\ Groups(data)[j].group.members[1] # <<>>

\* C9: a document that does not match the schema is rejected with
\* InvalidFormat before anything is touched: the manager's document and
\* the file stay as they were, replacing or merging.
C9_InvalidImportRejected ==
    [][\A raw \in IMPORTS, replace \in BOOLEAN :
         (last'.op = "import_groups" /\ ~ValidGroupsFile(raw)
            /\ ImportGroups(raw, replace)) =>
               /\ last'.exc = "InvalidFormat"
               /\ data' = data
               /\ file' = file]_vars

C9_Witness ==
    /\ last.op = "import_groups"
    /\ last.exc = "InvalidFormat"
    /\ Size(data) = 1
    /\ sTV \notin Keys(Groups(data))

\* C10: loading never fails the caller: whatever the file holds, the first
\* access returns with a document, the empty one when the file is missing
\* or is not a well-formed store document.
C10_LoadNeverFails ==
    [][(data = NONE /\ last'.op = "list_groups") =>
         /\ last'.exc = "none"
         /\ data' # NONE
         /\ (file.kind # "object" \/ ~ValidGroupsFile(file.doc)) =>
               data' = Some(GroupsFile0)]_vars

----------------------------------------------------------------------------
\* Members of static groups (SpecMembers).

\* No two members of any static group have the same normalized address.
NoDuplicateMembers(d) ==
    d # NONE =>
        \A i \in DOMAIN Groups(d) :
            LET g == Groups(d)[i].group
                ms == MembersOf(g)
            IN  g.type = "static" =>
                  \A j, k \in DOMAIN ms :
                     j # k => normalize_mac(ms[j].mac) # normalize_mac(ms[k].mac)

\* The members of the static group id resolves to, before and after a step.
MembersBefore(id) == MembersOf(Get(Groups(View), _resolve_group(Groups(View), id)[1]))
MembersAfter(id) == MembersOf(Get(Groups(data'), _resolve_group(Groups(View), id)[1]))

\* add_member(id, m, a) finds the normalized address of m in the group.
AddsPresentAddress(id, m) ==
    /\ View # NONE
    /\ Truthy(_resolve_group(Groups(View), id))
    /\ Get(Groups(View), _resolve_group(Groups(View), id)[1]).type = "static"
    /\ FindMac(MembersBefore(id), normalize_mac(m)) # 0

\* What add_member may do to a member list ms that has the address of m:
\* nothing but set that member's alias to a, and that only if Supplied.
AliasSet(before, after, m, a, Supplied) ==
    LET k == FindMac(before, normalize_mac(m))
    IN  after = IF Supplied THEN [before EXCEPT ![k].alias = a] ELSE before

----------------------------------------------------------------------------
\* Two managers on one file.

DocOf(m) == IF m = 1 THEN data ELSE data2

FileEntries(f) == IF f.doc.groups = NONE THEN {} ELSE Range(f.doc.groups[1])

\* C11: when a manager that has already loaded its document completes a
\* mutating call that saves, the file afterwards is exactly that manager's
\* document: every entry of the file other than the one the call touched
\* is an entry of the document the manager held before the call, so
\* whatever the other manager wrote since this one loaded is gone from the
\* file; and the call leaves the other manager's document as it was.
C11_LastWriterWins ==
    [][\A m \in {1, 2} :
          (/\ last'.by = m
           /\ last'.op \in MutatingOps
           /\ last'.exc = "none"
           /\ ~ReturnedFalse'
           /\ DocOf(m) # NONE)
          => /\ file' = _save(DocOf(m)'[1])
             /\ \A e \in FileEntries(file') :
                   \/ last'.ret.slug = Some(e.slug)
                   \/ e \in FileEntries(_save(DocOf(m)[1]))
             /\ DocOf(3 - m)' = DocOf(3 - m)]_vars

\* A lost update: manager 2, whose document was empty, has just created
\* "tv" and saved; manager 1 holds the group "kid" it had written before,
\* and the file no longer has it.
C11_Witness ==
    /\ last.by = 2
    /\ last.op = "create_group"
    /\ last.exc = "none"
    /\ last.n0 = 0
    /\ data # NONE
    /\ data2 # NONE
    /\ Keys(Groups(data)) = {sKid}
    /\ Keys(Groups(data2)) = {sTV}
    /\ file = _save(data2[1])
    /\ {e.slug : e \in FileEntries(file)} = {sTV}

----------------------------------------------------------------------------
\* Failures of the operations that take a group identifier.

\* What the identifier resolves to in the document a call finds.
Resolved(id) == _resolve_group(Groups(View), id)
TypeOf(id) == Get(Groups(View), Resolved(id)[1]).type

\* The step is a call of a member operation that needs a static group.
StaticOnlyCall(id) ==
    \/ last'.op = "add_member" /\ \E a \in ALIASES : AddMember(id, mBare, a)
    \/ last'.op = "list_members" /\ ListMembers(id)
    \/ last'.op = "clear_members" /\ ClearMembers(id)

\* C12: add_member, list_members and clear_members on an identifier that
\* resolves to an auto group, and set_rules on one that resolves to a
\* static group, raise the wrong-kind failure and leave the document and
\* the file as they were.
C12_WrongKind ==
    [][\A id \in IDENTS :
          (/\ View # NONE
           /\ Truthy(Resolved(id))
           /\ \/ TypeOf(id) = "auto" /\ StaticOnlyCall(id)
              \/ TypeOf(id) = "static" /\ last'.op = "set_rules" /\ SetRules(id, rWired))
          => /\ last'.exc = "WrongKind"
             /\ data' = View
             /\ file' = file]_vars

\* list_members has just been refused on the auto group "tv" while the
\* static group "kid" has a member.
C12_Witness ==
    /\ last.op = "list_members"
    /\ last.exc = "WrongKind"
    /\ data # NONE
    /\ Keys(Groups(data)) = {sKid, sTV}
    /\ Get(Groups(data), sTV).type = "auto"
    /\ MembersOf(Get(Groups(data), sKid)) # <<>>

\* The step is a call, with this identifier, of an operation that raises
\* when the group is not found.
RaisingCall(id) ==
    \/ last'.op = "update_group" /\ UpdateGroup(id, NONE, Given(Some("kids")))
    \/ last'.op = "add_member" /\ \E a \in ALIASES : AddMember(id, mBare, a)
    \/ last'.op = "get_member" /\ GetMember(id, mColon)
    \/ last'.op = "update_member" /\ UpdateMember(id, mColon, Given(NONE))
    \/ last'.op = "remove_member" /\ RemoveMember(id, aTab)
    \/ last'.op = "list_members" /\ ListMembers(id)
    \/ last'.op = "clear_members" /\ ClearMembers(id)
    \/ last'.op = "set_rules" /\ SetRules(id, rWired)
    \/ last'.op = "evaluate_auto_group"
         /\ EvaluateAutoGroup(id, <<cAppleWireless, cAppleWired>>)

\* C13: with an identifier that does not resolve, update_group,
\* add_member, get_member, update_member, remove_member, list_members,
\* clear_members, set_rules and evaluate_auto_group raise not-found and
\* delete_group returns False; the document and the file stay as they
\* were.
C13_NotFound ==
    [][\A id \in IDENTS :
          (View # NONE /\ Resolved(id) = NONE)
          => /\ RaisingCall(id)
                => last'.exc = "NotFound" /\ data' = View /\ file' = file
             /\ (last'.op = "delete_group" /\ DeleteGroup(id))
                => /\ last'.exc = "none"
                   /\ ~last'.ret.ok
                   /\ data' = View
                   /\ file' = file]_vars

\* evaluate_auto_group has just raised not-found in a store that has a
\* group, and the file still holds that store.
C13_Witness ==
    /\ last.op = "evaluate_auto_group"
    /\ last.exc = "NotFound"
    /\ data # NONE
    /\ Keys(Groups(data)) = {sKid}
    /\ file = _save(data[1])

----------------------------------------------------------------------------
\* Deleting a group.

\* Every group is stored under the slug of its name.
KeysAreSlugs(d) ==
    \A i \in DOMAIN Groups(d) : Groups(d)[i].slug = slugify(Groups(d)[i].group.name)

\* The step deletes the group that id resolves to.
Deletes(id) ==
    /\ last'.op = "delete_group"
    /\ View # NONE
    /\ Truthy(Resolved(id))
    /\ DeleteGroup(id)

\* delete_group removed exactly the entry at s, saved and returned True.
RemovedExactly(s) ==
    /\ last'.exc = "none"
    /\ last'.ret.ok
    /\ Groups(data') = Del(Groups(View), s)
    /\ file' = _save(data'[1])

\* After the step s does not resolve and a group of this name can be
\* created.
GoneAndFree(s, name) ==
    /\ _resolve_group(Groups(data'), s) = NONE
    /\ create_group(data', file', now, name, NONE, "static", NONE).exc = "none"

\* C14 as stated: delete_group on an identifier that resolves to s removes
\* exactly the entry at s, saves and returns True; afterwards s does not
\* resolve and create_group with the deleted group's name succeeds.
C14_DeleteFreesName ==
    [][\A id \in IDENTS :
          Deletes(id)
          => /\ RemovedExactly(Resolved(id)[1])
             /\ GoneAndFree(Resolved(id)[1],
                            Get(Groups(View), Resolved(id)[1]).name)]_vars

\* C14, amended: delete_group on an identifier that resolves to s removes
\* exactly the entry at s, saves and returns True; when every group of
\* the store is stored under the slug of its name, s afterwards does not
\* resolve and create_group with the deleted group's name succeeds.
C14_DeleteFreesSluggedName ==
    [][\A id \in IDENTS :
          Deletes(id)
          => /\ RemovedExactly(Resolved(id)[1])
             /\ KeysAreSlugs(View)
                => GoneAndFree(Resolved(id)[1],
                               Get(Groups(View), Resolved(id)[1]).name)]_vars

\* One of two groups has just been deleted, and the one that is left is
\* stored under the slug of its name.
C14_Witness ==
    /\ last.op = "delete_group"
    /\ last.exc = "none"
    /\ last.ret.ok
    /\ last.n0 = 2
    /\ Size(data) = 1
    /\ KeysAreSlugs(data)
    /\ file = _save(data[1])

----------------------------------------------------------------------------
\* Evaluating an auto group.

Categories == {"vendor", "name", "hostname", "network", "ip", "mac", "conn_type"}

\* Pattern p, alone in its category, accepts the client.
PatternAccepts(category, p, client) ==
    _client_matches_rules(client, [Rules0 EXCEPT ![category] = Some(<<p>>)]).ok

\* Every category that has patterns has one that accepts the client.
Selected(client, rules) ==
    \A category \in Categories :
        Truthy(rules[category])
        => \E i \in DOMAIN rules[category][1] :
              PatternAccepts(category, rules[category][1][i], client)

SelectedOf(clients, rules) ==
    LET Test(client) == Selected(client, rules)
    IN  SelectSeq(clients, Test)

\* The group the last evaluate_auto_group call was about.
Evaluated == Get(Groups(data), _resolve_group(Groups(data), call.id)[1])

HasEvaluated ==
    /\ last.op = "evaluate_auto_group"
    /\ last.exc = "none"

\* C15: for an auto group that has rules, evaluate_auto_group returns, in
\* input order, exactly the clients for which every category with
\* patterns has a pattern that matches (a category without patterns
\* passes).
C15_AndAcrossOrWithin ==
    (HasEvaluated /\ Evaluated.type = "auto" /\ Evaluated.rules # NONE)
    => last.ret.list = SelectedOf(call.clients, Evaluated.rules[1])

\* With vendor [Apple] and conn_type [Wireless], of an Apple wireless, an
\* Apple wired, a Samsung wireless and a bare wired client only the first
\* is returned.
C15_Witness ==
    /\ HasEvaluated
    /\ Evaluated.type = "auto"
    /\ Evaluated.rules = Some(rAppleWireless)
    /\ call.clients = <<cAppleWireless, cAppleWired, cSamsungWireless, cBare>>
    /\ last.ret.list = <<cAppleWireless>>

\* C16: evaluate_auto_group returns the empty list when the group is
\* static or is an auto group without rules.
C16_EmptyWithoutRules ==
    (HasEvaluated /\ (Evaluated.type = "static" \/ Evaluated.rules = NONE))
    => last.ret.list = <<>>

\* Four clients have been evaluated against an auto group without rules,
\* while the store also has a static group that carries rules.
C16_Witness ==
    /\ HasEvaluated
    /\ Evaluated.type = "auto"
    /\ Evaluated.rules = NONE
    /\ Len(call.clients) = 4
    /\ last.ret.list = <<>>

----------------------------------------------------------------------------
\* The matchers.

\* C17: pattern_matches and ip_matches return a boolean for every pattern
\* and every candidate value; no failure escapes them.
C17_MatchersNeverRaise ==
    last.op \in {"pattern_matches", "ip_matches"} => last.exc = "none"

\* The answer the stated precedence gives: nothing matches an empty
\* pattern or an empty or absent value; a pattern with a comma that does
\* not start with '~' matches when one of its trimmed parts matches; a
\* pattern starting with '~' is a regular expression searched for in the
\* value; a pattern with '*' or '?' is a wildcard for the whole value;
\* any other pattern has to equal the value; the last three ignore case.
MatchesByPrecedence(pattern, value) ==
    IF pattern = <<>> \/ value = NONE \/ value = Some(<<>>) THEN FALSE
    ELSE IF "," \in Range(pattern) /\ ~StartsWith(pattern, <<"~">>)
         THEN \E part \in Range(Split(pattern, ",")) :
                 pattern_matches(Strip(part, Whitespace), value).ok
    ELSE IF StartsWith(pattern, <<"~">>)
         THEN re_search(SubSeq(pattern, 2, Len(pattern)), value[1]).ok
    ELSE IF {"*", "?"} \cap Range(pattern) # {}
         THEN fnmatch(Lower(value[1]), Lower(pattern))
    ELSE Lower(value[1]) = Lower(pattern)

\* C18: when pattern_matches returns, its answer is the one the stated
\* precedence of styles gives.
C18_OneStyleByPrecedence ==
    (last.op = "pattern_matches" /\ last.exc = "none")
    => last.ret.ok = MatchesByPrecedence(call.pattern, call.value)

\* "~a,b" was searched for as a regular expression in "a,b", not split at
\* the comma.
C18_Witness ==
    /\ last.op = "pattern_matches"
    /\ last.exc = "none"
    /\ call.pattern = <<"~","a",",","b">>
    /\ call.value = Some(<<"a",",","b">>)
    /\ last.ret.ok

\* The four numbers of a dotted quad; <<>> when s is not one.
Octets(s) ==
    LET parts == Split(s, ".")
    IN  IF Len(parts) = 4 /\ \A i \in 1..4 : IsOctet(parts[i])
        THEN [i \in 1..4 |-> Decimal(parts[i])]
        ELSE <<>>

\* a <= b for two dotted quads read as 32-bit numbers, most significant
\* octet first.
QuadLe(a, b) ==
    \/ a = b
    \/ \E i \in 1..4 : a[i] < b[i] /\ \A j \in 1..(i - 1) : a[j] = b[j]

\* The two halves of a range pattern.
RangeBase(pattern) == RSplit1(pattern, "-")[1]
RangeEnd(pattern) == RSplit1(pattern, "-")[2]

\* pattern is a.b.c.d-N with N an octet.
IsShortRange(pattern) ==
    /\ "-" \in Range(pattern)
    /\ Octets(RangeBase(pattern)) # <<>>
    /\ IsOctet(RangeEnd(pattern))

\* pattern is a.b.c.d-w.x.y.z.
IsFullRange(pattern) ==
    /\ "-" \in Range(pattern)
    /\ Octets(RangeBase(pattern)) # <<>>
    /\ Octets(RangeEnd(pattern)) # <<>>

\* C19: for a range pattern a.b.c.d-N, ip_matches is true exactly for the
\* addresses a.b.c.e with d <= e <= N (none when N < d); for a range
\* a.b.c.d-w.x.y.z it is true exactly for the addresses from the first to
\* the second, ends included, in the order of 32-bit numbers.
C19_RangeInclusive ==
    last.op = "ip_matches"
    => /\ IsShortRange(call.pattern)
          => (last.ret.ok
              <=> /\ call.value # NONE
                  /\ Octets(call.value[1]) # <<>>
                  /\ SubSeq(Octets(call.value[1]), 1, 3)
                       = SubSeq(Octets(RangeBase(call.pattern)), 1, 3)
                  /\ Octets(RangeBase(call.pattern))[4] <= Octets(call.value[1])[4]
                  /\ Octets(call.value[1])[4] <= Decimal(RangeEnd(call.pattern)))
       /\ IsFullRange(call.pattern)
          => (last.ret.ok
              <=> /\ call.value # NONE
                  /\ Octets(call.value[1]) # <<>>
                  /\ QuadLe(Octets(RangeBase(call.pattern)), Octets(call.value[1]))
                  /\ QuadLe(Octets(call.value[1]), Octets(RangeEnd(call.pattern))))

\* 10.0.0.9 matched 10.0.0.5-9: the upper end of a short range.
C19_Witness ==
    /\ last.op = "ip_matches"
    /\ call.pattern = <<"1","0",".","0",".","0",".","5","-","9">>
    /\ call.value = Some(<<"1","0",".","0",".","0",".","9">>)
    /\ last.ret.ok

----------------------------------------------------------------------------
\* Slugs.

\* C20: the slug of a slug is that slug; and the slug create_group
\* returns resolves, as an identifier, to the key the group was stored
\* under.
C20_SlugifyIdempotent ==
    /\ last.op = "slugify"
       => /\ last.ret.slug = Some(slugify(call.name))
          /\ slugify(last.ret.slug[1]) = last.ret.slug[1]
    /\ (last.op = "create_group" /\ last.exc = "none")
       => /\ slugify(last.ret.slug[1]) = last.ret.slug[1]
          /\ last.ret.slug[1] \in Keys(Groups(data))
          /\ Get(Groups(data), last.ret.slug[1]).name = call.name
          /\ _resolve_group(Groups(data), last.ret.slug[1]) = last.ret.slug

\* "  My Group!  " has just been created as "my-group" in a store that
\* also holds the group "!" under the empty slug.
C20_Witness ==
    /\ last.op = "create_group"
    /\ last.exc = "none"
    /\ call.name = nMyGroup
    /\ last.ret.slug = Some(sMyGroup)
    /\ <<>> \in Keys(Groups(data))

----------------------------------------------------------------------------
\* Hardware addresses.

\* C21: normalizing what normalize_mac returned gives the same string
\* again; and the hyphen-separated, the colon-separated and the
\* unseparated spelling of one address, in either letter case, all
\* normalize to its upper-case colon-separated spelling.
C21_NormalizeIdempotentAnyFormat ==
    last.op = "normalize_mac"
    => /\ last.ret.list = normalize_mac(call.mac)
       /\ normalize_mac(last.ret.list) = last.ret.list
       /\ \A h \in HW_ADDRESSES, sep \in {"", "-", ":"}, lower \in BOOLEAN :
             call.mac = Spell(h, sep, lower) => last.ret.list = Spell(h, ":", FALSE)

\* The lower-case unseparated spelling has just been normalized.
C21_Witness ==
    /\ last.op = "normalize_mac"
    /\ call.mac = mBare
    /\ last.ret.list = mColon

----------------------------------------------------------------------------
\* What the member operations stamp and write (SpecMembers).

\* The group id resolves to, before and after a step.
GroupBefore(id) == Get(Groups(View), Resolved(id)[1])
GroupAfter(id) == Get(Groups(data'), Resolved(id)[1])

\* The step is a call add_member(c[1], c[2], c[3]) that returns.
AddSucceeds(c) ==
    /\ last'.op = "add_member"
    /\ View # NONE
    /\ Truthy(Resolved(c[1]))
    /\ TypeOf(c[1]) = "static"
    /\ AddMember(c[1], c[2], c[3])

\* The step leaves the document it worked on in the file.
Written == file' = _save(data'[1])

\* updated_at of the group is the clock reading if Stamped, and is left
\* alone otherwise.
StampedIff(id, Stamped) ==
    GroupAfter(id).updated_at = IF Stamped THEN now ELSE GroupBefore(id).updated_at

\* C22 as stated: add_member writes the file on every successful call and
\* leaves updated_at alone unless the call changed the member list (a
\* member appended or an alias given another value).
C22_StampedOnlyOnChange ==
    [][\A c \in ADD_CALLS :
          AddSucceeds(c)
          => /\ last'.exc = "none"
             /\ Written
             /\ StampedIff(c[1], MembersAfter(c[1]) # MembersBefore(c[1]))]_vars

\* C22, amended: add_member writes the file on every successful call and
\* sets updated_at exactly when it appends a member or is given a
\* non-empty alias for a member already present, whether or not that
\* alias differs from the stored one.
C22_StampedOnAppendOrAlias ==
    [][\A c \in ADD_CALLS :
          AddSucceeds(c)
          => /\ last'.exc = "none"
             /\ Written
             /\ StampedIff(c[1], \/ ~AddsPresentAddress(c[1], c[2])
                                 \/ Truthy(c[3]))]_vars

\* add_member has run at clock reading 1 on a group created at 0 that
\* holds one member with an alias, and the group carries the stamp 1.
C22_Witness ==
    /\ last.op = "add_member"
    /\ last.exc = "none"
    /\ now = 1
    /\ data # NONE
    /\ sKid \in Keys(Groups(data))
    /\ Len(MembersOf(Get(Groups(data), sKid))) = 1
    /\ MembersOf(Get(Groups(data), sKid))[1].alias = Some(aTab)
    /\ Get(Groups(data), sKid).created_at = 0
    /\ Get(Groups(data), sKid).updated_at = 1
    /\ file = _save(data[1])

\* The step is a call clear_members(id) on a static group.
ClearsStatic(id) ==
    /\ last'.op = "clear_members"
    /\ View # NONE
    /\ Truthy(Resolved(id))
    /\ TypeOf(id) = "static"
    /\ ClearMembers(id)

\* C23 as stated: clear_members on a static group returns True; a group
\* whose list is already empty is left exactly as it was, updated_at
\* included, and a non-empty list becomes the empty list.
C23_ClearEmptyIsNoOp ==
    [][\A id \in IDENTS_M :
          ClearsStatic(id)
          => /\ last'.exc = "none"
             /\ last'.ret.ok
             /\ MembersAfter(id) = <<>>
             /\ MembersBefore(id) = <<>> => GroupAfter(id) = GroupBefore(id)]_vars

\* C23, amended: clear_members on a static group returns True, makes the
\* member list the empty list, sets updated_at and writes the file,
\* whether or not the list was empty before; nothing else of the group
\* changes.
C23_ClearAlwaysStamps ==
    [][\A id \in IDENTS_M :
          ClearsStatic(id)
          => /\ last'.exc = "none"
             /\ last'.ret.ok
             /\ GroupAfter(id) = [GroupBefore(id) EXCEPT !.members = Some(<<>>),
                                                         !.updated_at = now]
             /\ Written]_vars

\* clear_members has run at clock reading 1 on the group created at 0:
\* its list is empty and it carries the stamp 1.
C23_Witness ==
    /\ last.op = "clear_members"
    /\ last.exc = "none"
    /\ last.ret.ok
    /\ now = 1
    /\ data # NONE
    /\ sKid \in Keys(Groups(data))
    /\ Get(Groups(data), sKid).members = Some(<<>>)
    /\ Get(Groups(data), sKid).created_at = 0
    /\ Get(Groups(data), sKid).updated_at = 1

----------------------------------------------------------------------------
\* The mac category (SpecMacRule).

\* s with '-' and '.' turned into ':' and its letters in upper case.
Reshaped(s) == [i \in DOMAIN s |-> IF s[i] \in {"-", "."} THEN ":" ELSE UpperChar(s[i])]

\* s with '-' turned into ':' and its letters in upper case.
Hyphenless(s) == [i \in DOMAIN s |-> IF s[i] = "-" THEN ":" ELSE UpperChar(s[i])]

\* Sequence p is the beginning of sequence s, character by character.
IsPrefix(p, s) == Len(p) <= Len(s) /\ \A i \in DOMAIN p : p[i] = s[i]

\* The address of a client, "" when it has none.
MacOf(client) == IF client.mac = NONE THEN <<>> ELSE client.mac[1]

\* The last call evaluated an auto group whose only patterns are mac
\* patterns.
EvaluatedMacOnly ==
    /\ HasEvaluated
    /\ Evaluated.type = "auto"
    /\ Evaluated.rules # NONE
    /\ Truthy(Evaluated.rules[1].mac)
    /\ \A category \in Categories \ {"mac"} : ~Truthy(Evaluated.rules[1][category])

\* C24 as stated: a client is returned exactly when, for some mac
\* pattern, its address begins with the pattern once both have had '-'
\* and '.' turned into ':' and their letters upper-cased.
C24_MacPrefixBothReshaped ==
    EvaluatedMacOnly
    => LET ps == Evaluated.rules[1].mac[1]
           Test(client) == \E i \in DOMAIN ps :
                              IsPrefix(Reshaped(ps[i]), Reshaped(MacOf(client)))
       IN  last.ret.list = SelectSeq(call.clients, Test)

\* C24, amended: a client is returned exactly when, for some mac pattern,
\* its upper-cased address begins with the pattern upper-cased and with
\* '-' turned into ':'; '.' in the pattern and the separators of the
\* client's address stay as they are, and '*', '?', '~' and ',' stand
\* for themselves.
C24_MacPrefixPatternHyphens ==
    EvaluatedMacOnly
    => LET ps == Evaluated.rules[1].mac[1]
           Test(client) == \E i \in DOMAIN ps :
                              IsPrefix(Hyphenless(ps[i]), Upper(MacOf(client)))
       IN  last.ret.list = SelectSeq(call.clients, Test)

\* With the pattern "aa-bb", of a client with a hyphenated address, one
\* with a dotted address, one whose address begins with '*' and one with
\* the address aa:bb:cc:dd:ee:ff only the last is returned.
C24_Witness ==
    /\ EvaluatedMacOnly
    /\ Evaluated.rules[1].mac = Some(<<pMacPrefix>>)
    /\ call.clients = <<cDashMac, cDotMac, cStarMac, cAppleWireless>>
    /\ last.ret.list = <<cAppleWireless>>

----------------------------------------------------------------------------
\* Removing a member (SpecRemove).

\* The positions of the members that identifier names, by normalized
\* address or by alias.
Named(ms, identifier) ==
    {i \in DOMAIN ms : \/ ms[i].mac = normalize_mac(identifier)
                       \/ ms[i].alias = Some(identifier)}

\* List after is list before without its k-th element.
Without(before, after, k) ==
    /\ Len(after) = Len(before) - 1
    /\ \A i \in DOMAIN after : after[i] = before[IF i < k THEN i ELSE i + 1]

\* C25: remove_member on a static group removes the first member named
\* by the identifier, keeps the others in order, sets updated_at, writes
\* the file and returns True; when no member is named it returns False
\* and leaves document and file as they were.
C25_RemovesFirstNamed ==
    [][(/\ last'.op = "remove_member"
        /\ last'.exc = "none"
        /\ RemoveMemberCall(call'.id, call'.identifier))
       => LET id == call'.id
              hits == Named(MembersBefore(id), call'.identifier)
          IN  /\ TypeOf(id) = "static"
              /\ IF hits = {}
                 THEN /\ ~last'.ret.ok
                      /\ data' = View
                      /\ file' = file
                 ELSE /\ last'.ret.ok
                      /\ Without(MembersBefore(id), MembersAfter(id),
                                 CHOOSE k \in hits : \A j \in hits : k <= j)
                      /\ GroupAfter(id) = [GroupBefore(id) EXCEPT
                                             !.members = GroupAfter(id).members,
                                             !.updated_at = now]
                      /\ Written]_vars

\* Of a member with the alias "11.22.33.44.55.66" and a later member with
\* the address 11:22:33:44:55:66, remove_member("11.22.33.44.55.66") has
\* removed the first: the member with that address is the one left.
C25_Witness ==
    /\ last.op = "remove_member"
    /\ last.ret.ok
    /\ last.exc = "none"
    /\ call.identifier = mOther
    /\ MembersOf(Get(Groups(data), sKid)) = <<GroupMember(normalize_mac(mOther), NONE)>>
    /\ file = _save(data[1])

----------------------------------------------------------------------------
\* Updating a group (SpecStamps).

\* The step is the call of update_group that call' records, and it
\* returns.
UpdateReturns ==
    /\ last'.op = "update_group"
    /\ last'.exc = "none"
    /\ UpdateGroupCall(call'.id, call'.new_name, call'.description)

\* C26: update_group leaves the description alone when none is passed,
\* sets it to None when None is passed and to the value when a value is
\* passed; without a new name the name and the slug stay; every call
\* that returns sets updated_at and writes the file.
C26_DescriptionTriState ==
    [][UpdateReturns
       => LET before == GroupBefore(call'.id)
              after == Get(Groups(data'), last'.ret.slug[1])
          IN  /\ after.description = IF call'.description.given
                                     THEN call'.description.value
                                     ELSE before.description
              /\ call'.new_name = NONE
                 => /\ after.name = before.name
                    /\ last'.ret.slug = Resolved(call'.id)
              /\ after.updated_at = now
              /\ Written]_vars

\* update_group(description=None) has run at clock reading 1 on the group
\* created at 0 with the description "kids": the description is gone,
\* the name and the slug are as before.
C26_Witness ==
    /\ last.op = "update_group"
    /\ last.exc = "none"
    /\ call = [fn |-> "update_group", id |-> sKid, new_name |-> NONE,
               description |-> Given(NONE)]
    /\ last.ret.slug = Some(sKid)
    /\ Get(Groups(data), sKid).name = nKid
    /\ Get(Groups(data), sKid).description = NONE
    /\ Get(Groups(data), sKid).created_at = 0
    /\ Get(Groups(data), sKid).updated_at = 1
    /\ now = 1

----------------------------------------------------------------------------
\* Keys and names.

ImportOps == {"import_groups", "export_import"}

\* The step is a call that leaves a document, made on a document whose
\* groups are all stored under the slugs of their names.
CallOnSluggedStore ==
    /\ last' # last
    /\ View # NONE
    /\ data' # NONE
    /\ KeysAreSlugs(View)

\* C27 as stated: no operation, import included, leaves a group under a
\* key that is not the slug of its name.
C27_KeysStaySlugs ==
    [][CallOnSluggedStore => KeysAreSlugs(data')]_vars

\* C27, amended: no operation other than import leaves a group under a
\* key that is not the slug of its name (import stores each group under
\* the key it has in the imported document).
C27_KeysStaySlugsWithoutImport ==
    [][(CallOnSluggedStore /\ last'.op \notin ImportOps) => KeysAreSlugs(data')]_vars

\* A rename has just moved a group to the key "tv" beside the group
\* "kid!", which is stored under "kid".
C27_Witness ==
    /\ last.op = "update_group"
    /\ last.exc = "none"
    /\ last.ret.slug = Some(sTV)
    /\ data # NONE
    /\ Keys(Groups(data)) = {sKid, sTV}
    /\ Get(Groups(data), sKid).name = nKidBang
    /\ Get(Groups(data), sTV).name = nTV
    /\ KeysAreSlugs(data)

----------------------------------------------------------------------------
\* Reaching a group that was just stored (SpecSlug).

\* In document d the group stored under slug with this name is found by
\* get_group, accepts a member and is deleted by delete_group, under
\* either identifier.
Reachable(d, f, slug, name) ==
    \A id \in {slug, name} :
        /\ get_group(d, f, id).ret.slug = Some(slug)
        /\ add_member(d, f, now, id, mBare, NONE).exc = "none"
        /\ delete_group(d, f, id).ret.ok

\* C28: right after create_group(name) returns, and right after a rename
\* of that group to any name returns, the group is reachable by the
\* returned slug and by its name.
C28_StoredIsReachable ==
    (last.op = "create_group" /\ last.exc = "none")
    => /\ Reachable(data, file, last.ret.slug[1], call.name)
       /\ \A new_name \in SLUG_NAMES :
             LET out == update_group(data, file, now, call.name, Some(new_name), Omitted)
             IN  out.exc = "none"
                 => Reachable(out.data, out.file, out.ret.slug[1], new_name)

----------------------------------------------------------------------------
\* Rules without patterns (SpecAuto).

\* No category of the rules has a pattern.
Unconstrained(rules) == \A category \in Categories : ~Truthy(rules[category])

\* C29: for an auto group whose rules are present and have no pattern in
\* any category, evaluate_auto_group returns every client it was given,
\* in the order given.
C29_NoPatternsSelectAll ==
    (HasEvaluated /\ Evaluated.type = "auto" /\ Evaluated.rules # NONE
       /\ Unconstrained(Evaluated.rules[1]))
    => last.ret.list = call.clients

\* Four clients have been evaluated against an auto group whose seven
\* categories are all empty lists, and all four came back.
C29_Witness ==
    /\ HasEvaluated
    /\ Evaluated.type = "auto"
    /\ Evaluated.rules = Some(rAllEmpty)
    /\ Len(call.clients) = 4
    /\ last.ret.list = call.clients

----------------------------------------------------------------------------
\* created_at and updated_at (SpecCreated).

MemberAndRuleOps == {"add_member", "update_member", "remove_member",
                     "clear_members", "set_rules"}

\* Every group of document d was updated no earlier than it was created.
UpdatedAfterCreated(d) ==
    \A i \in DOMAIN Groups(d) :
        Groups(d)[i].group.updated_at >= Groups(d)[i].group.created_at

\* C30: a member operation or set_rules leaves every group under its key
\* with its created_at; update_group leaves the group it names, under
\* the slug it returns, with its created_at; and every group of the
\* document has updated_at >= created_at.
C30_CreatedAtKept ==
    [][(View # NONE /\ data' # NONE)
       => /\ (last'.op \in MemberAndRuleOps /\ now' = now)
             => /\ Keys(Groups(data')) = Keys(Groups(View))
                /\ \A s \in Keys(Groups(View)) :
                      Get(Groups(data'), s).created_at = Get(Groups(View), s).created_at
          /\ UpdateReturns
             => Get(Groups(data'), last'.ret.slug[1]).created_at
                  = GroupBefore(call'.id).created_at
          /\ UpdatedAfterCreated(data')]_vars

\* The group created as "Kid" at clock reading 0 has been renamed at 1:
\* it is stored under "tv" with created_at 0 and updated_at 1.
C30_Witness ==
    /\ last.op = "update_group"
    /\ last.exc = "none"
    /\ call.id = sKid
    /\ call.new_name = Some(nTV)
    /\ last.ret.slug = Some(sTV)
    /\ now = 1
    /\ Keys(Groups(data)) = {sTV}
    /\ Get(Groups(data), sTV).type = "static"
    /\ Get(Groups(data), sTV).created_at = 0
    /\ Get(Groups(data), sTV).updated_at = 1

====
